---- MODULE Spec2Model ----
(***************************************************************************)
(* Verification model of the nBot backend (src/backend/src).               *)
(*                                                                         *)
(* SpecConn    : OneBot supervisor (start_bot_connections), the per-bot    *)
(*               worker (run_bot_connection), the login monitor and the    *)
(*               OneBot RPC correlation of BotRuntime::call_api.           *)
(* SpecSup     : the supervision part of SpecConn alone, for two bots.     *)
(* SpecDedup   : send_reply, MessageDedup and send_api over the registry.  *)
(* SpecDiscord : the Discord supervisor (start_discord_connections), the   *)
(*               reconnect loop of start_discord_bot, the gateway session  *)
(*               of discord_connect_and_run and the bot store.             *)
(* SpecFlag    : is_connected of a OneBot bot and of a Discord bot.        *)
(* SpecRestart : a Discord bot restarted while its previous task runs.     *)
(***************************************************************************)
EXTENDS Integers, Sequences, FiniteSets, TLC

(***************************************************************************)
(* Bounds of the model.                                                    *)
(***************************************************************************)
MaxWorkers == 2
MaxCalls == 2
MaxNanos == 1
MaxSenders == 2
TicksPerSec == 1
MaxDWorkers == 2
MaxSeq == 2
MaxPlugins == 3
MaxHandlers == 2
MaxSubs == 3
MaxLlmTicks == 2
MaxStatusCalls == 2
MaxStatusSecs == 4
MaxFrames == 3
MaxCreations == 3
MaxUnixSecs == 2
MaxIndexTasks == 2
MaxIndexKeys == 4
MaxItems == 3
MaxVideoFrames == 24
MaxRawBytes == 110

\* The images of a forward message and the levels of its nesting.
MaxImages == 25
MaxLevels == 4

\* The tasks that save the bot store next to each other.
MaxSavers == 2

(***************************************************************************)
(* Program constants.                                                      *)
(***************************************************************************)
CALL_TIMEOUT_SECS == 15
DEDUP_TTL_SECS == 5
BACKOFF_START_SECS == 1
BACKOFF_CAP_SECS == 30
WHITELIST_PRIORITY == -100
MAX_CONCURRENT_GLOBAL == 2
MAX_CONCURRENT_PER_USER == 1
MAX_CONCURRENT_PER_GROUP == 1
MIN_INTERVAL_SECS == 10
GROUP_SEND_STATUS_TTL_SECS == 3

\* connection.rs DISCORD_MSG_INDEX_MAX, scaled down from 2048.
DISCORD_MSG_INDEX_MAX == 2

\* api.rs DISCORD_MAX_CONTENT_CHARS, scaled down from 2000.
DISCORD_MAX_CONTENT_CHARS == 4
DISCORD_MAX_ATTACHMENTS == 10

\* video/mod.rs: the attempts of the frames loop and of the direct loop, and
\* the smallest budget of raw bytes (80_000) in units of 1000 bytes.
FRAMES_ATTEMPTS == 4
DIRECT_ATTEMPTS == 3
MIN_RAW_BYTES == 80

\* image.rs: the clamps of max_output_bytes and of the quality, the turns of
\* the loop, and the length of "data:image/jpeg;base64,".
MIN_OUTPUT_BYTES == 50000
MAX_OUTPUT_BYTES == 10000000
MIN_QUALITY == 30
MAX_QUALITY == 95
IMAGE_ATTEMPTS == 10
DATA_URL_PREFIX_LEN == 23

\* api.rs redact_sensitive_ids_plaintext: the name lookups per message.
MAX_LOOKUPS == 8

\* message/reply.rs: the depth and the size of the media catalog.
FORWARD_MAX_DEPTH == 3
FORWARD_MEDIA_MAX_ITEMS == 20

\* Resolution at which the model observes the time a call_api spends waiting.
TickSecs == CALL_TIMEOUT_SECS \div 3
LlmTickSecs == MIN_INTERVAL_SECS \div 2

OneBotIds == {"qq1", "qq2"}
DiscordIds == {"dc1"}
BotIds == OneBotIds \cup DiscordIds
RpcBots == {"qq1"}
Workers == 1..MaxWorkers
RpcWorkers == {1}
Calls == 1..MaxCalls
ApiActions == {"get_login_info", "get_msg"}
Echoes == ApiActions \X (0..MaxNanos)

NoConn == [kind |-> "None", sender |-> 0]
OneBot(w) == [kind |-> "OneBot", sender |-> w]
Discord(w) == [kind |-> "Discord", sender |-> w]

IdleWorker == [bot |-> "qq1", pc |-> "idle", chan |-> FALSE]
Ended(outcome) ==
    [pc |-> "ended", bot |-> "qq1", echo |-> <<"get_login_info", 0>>,
     elapsed |-> 0, got |-> FALSE, closed |-> FALSE, task |-> 0,
     outcome |-> outcome]
IdleCall == [pc |-> "idle", bot |-> "qq1", echo |-> <<"get_login_info", 0>>,
             elapsed |-> 0, got |-> FALSE, closed |-> FALSE, task |-> 0,
             outcome |-> "none"]

VARIABLES
    is_connected,      \* BotInstance.is_connected of every bot
    connections,       \* BotRuntime.connections : bot id -> BotConnection
    worker,            \* the run_bot_connection tasks
    pending_requests,  \* BotRuntime.pending_requests : echo -> owning call (0 = absent)
    call,              \* the call_api invocations
    wall,              \* the reading of SystemTime::now(), in nanoseconds
    ignored,           \* number of inbound echo frames that matched no pending entry (capped)
    dedup_cache,       \* MessageDedup.cache : hash -> ticks since the recorded Instant (-1 = absent)
    reply,             \* the send_reply invocations
    passed_age,        \* hash -> ticks since a send_reply with that hash last passed the dedup check
    transport_age,     \* hash -> ticks since a message with that hash last reached the transport
    last_check,        \* what the latest dedup check decided, and how long before the hash had last passed
    is_running,        \* BotInstance.is_running of every Discord bot
    has_token,         \* whether metadata.discord.token of a Discord bot is non-empty
    bots_guard,        \* the task that holds a get_mut guard on the bot store (0 = none)
    bots_file,         \* the contents of data/state/bots.json
    need_restart,      \* update_discord_bot_handler has saved and is about to restart the bot
    dworker,           \* the reconnect tasks spawned by start_discord_bot
    shutdown,          \* the value of each task's shutdown watch channel
    loaded_plugins,    \* PluginManager.loaded_plugins : the ids of the loaded plugins
    runtimes,          \* plugin_worker's runtimes : the ids that have a PluginRuntime
    hook,              \* the broadcast hook call in progress
    runtime_config,    \* the config held by each plugin's PluginRuntime (None: no runtime)
    persisted_config,  \* the manifest config of each installed plugin in the registry
    upd,               \* the update_plugin_config_handler calls in progress
    GLOBAL_INFLIGHT,   \* llm_abuse: the global inflight counter
    USER_INFLIGHT,     \* llm_abuse: the inflight counter of each user
    GROUP_INFLIGHT,    \* llm_abuse: the inflight counter of each group
    USER_LAST_START,   \* llm_abuse: each user's entry of the last-start map (<<>>: vacant)
    llm_now,           \* the monotonic clock read by Instant::now(), in seconds
    llm_task,          \* the try_begin_llm_task calls and the guards they returned
    self_id_cache,     \* BotRuntime.self_id_cache holds the bot's own id
    group_send_status_cache,  \* the entry of one (bot, group) key (<<>>: none)
    status_now,        \* the monotonic clock, in seconds
    status_call,       \* the get_group_send_status call in progress
    status_log,        \* the get_group_send_status calls that have returned and the
                       \* Discord POSTs that were answered, in order
    exited,            \* a worker of the bot has exited and the supervisor has spawned none since
    frames,            \* per worker: frames held by the receive loop, handle_event tasks running
    discord_inbound,   \* the MESSAGE_CREATE dispatches read so far: was READY in, what was done
    bots,              \* AppState.bots as left by the creations: bot id -> the creation that inserted it (0: absent)
    creating,          \* the create_bot_handler and copy_bot_handler calls
    unix_secs,         \* SystemTime::now() in whole seconds since the epoch
    discord_msg_index, \* BotRuntime.discord_msg_index : the keys of the map
    discord_msg_fifo,  \* BotRuntime.discord_msg_fifo
    index_call,        \* the index_discord_message calls in progress
    send_input,        \* the text and images of the latest Discord SendReply (<<>>: none yet)
    discord_posts,     \* the POSTs that discord_send_channel_message made for it, in order
    bundle,            \* the MediaBundle pipeline: its lists, its request and its LLM calls
    frames_job,        \* the video pipeline in frames mode
    direct_job,        \* the video pipeline in direct mode
    image_job,         \* the prepare_image_data_url call: its locals and its result
    redact_job,        \* one text on its way through redact_qq_ids and sanitize_outgoing_text
    forward_job,       \* one collect_forward_media call: the forward it was given and its result
    verify_job,        \* a sign_plugin call and the PluginVerifier::verify call on its signature
    bot_flags,         \* state.bots as the savers see it: bot -> is_connected
    bots_json,         \* the contents of data/state/bots.json
    saver,             \* the tasks that change a bot and call save_bots
    tasks              \* state.tasks: task id -> state and progress of the task

connVars == <<is_connected, connections, worker, pending_requests, call, wall, ignored>>
dedupVars == <<dedup_cache, reply, passed_age, transport_age, last_check>>

storeVars == <<is_running, has_token, bots_guard, bots_file, need_restart>>
discVars == <<dworker, shutdown>>

plugVars == <<loaded_plugins, runtimes, hook>>
cfgVars == <<runtime_config, persisted_config, upd>>
llmVars == <<GLOBAL_INFLIGHT, USER_INFLIGHT, GROUP_INFLIGHT, USER_LAST_START,
             llm_now, llm_task>>

\* The variables of the subsystems other than connections, dedup, bot store
\* and Discord.
statusVars == <<self_id_cache, group_send_status_cache, status_now, status_call, status_log>>
\* The bookkeeping of the OneBot workers' exits and inbound event frames.
supVars == <<exited, frames, discord_inbound>>

\* The bot store's key set and the handlers that add bots to it.
botVars == <<bots, creating, unix_secs>>

\* The variables of the handlers and pipelines that stand on their own.
\* The Discord message index.
idxVars == <<discord_msg_index, discord_msg_fifo, index_call>>

\* The Discord REST materialisation of a reply.
sendVars == <<send_input, discord_posts>>

\* The multi-modal LLM pipelines.
pipeVars == <<bundle, frames_job, direct_job>>

\* multimodal/image.rs: one prepare_image_data_url call.
imgVars == <<image_job>>

\* runtime/api.rs and llm_forward/redact.rs: the redaction of one outbound text.
redVars == <<redact_job>>

\* message/reply/forward.rs: the media catalog of one forward message.
fwdVars == <<forward_job>>

\* plugin/verifier.rs: one signature and its verification.
sigVars == <<verify_job>>

\* persistence.rs: the savers of the bot store.
persistVars == <<bot_flags, bots_json, saver>>

\* models.rs tasks: the background tasks shown by /api/tasks.
taskVars == <<tasks>>

auxVars == <<botVars, idxVars, sendVars, pipeVars, imgVars, redVars, fwdVars, sigVars, persistVars, taskVars>>
extVars == <<plugVars, cfgVars, llmVars, statusVars, supVars, auxVars>>

coreVars == <<connVars, dedupVars, storeVars, discVars>>

\* The variables that the plugin manager and the plugin handlers leave alone.
nonPlugVars == <<coreVars, llmVars, statusVars, supVars, auxVars>>

\* The variables that try_begin_llm_task and LlmTaskGuard leave alone.
nonLlmVars == <<coreVars, plugVars, cfgVars, statusVars, supVars, auxVars>>

\* The variables that get_group_send_status leaves alone.
nonStatusVars == <<coreVars, plugVars, cfgVars, llmVars, supVars, auxVars>>

\* The variables that the stand-alone handlers and pipelines leave alone.
nonAuxVars == <<coreVars, plugVars, cfgVars, llmVars, statusVars, supVars>>
nonBotVars == <<nonAuxVars, idxVars, sendVars, pipeVars, imgVars, redVars, fwdVars, sigVars, persistVars, taskVars>>
nonIdxVars == <<nonAuxVars, botVars, sendVars, pipeVars, imgVars, redVars, fwdVars, sigVars, persistVars, taskVars>>
nonSendVars == <<nonAuxVars, botVars, idxVars, pipeVars, imgVars, redVars, fwdVars, sigVars, persistVars, taskVars>>
nonPipeVars == <<nonAuxVars, botVars, idxVars, sendVars, imgVars, redVars, fwdVars, sigVars, persistVars, taskVars>>
nonImgVars == <<nonAuxVars, botVars, idxVars, sendVars, pipeVars, redVars, fwdVars, sigVars, persistVars, taskVars>>
nonRedVars == <<nonAuxVars, botVars, idxVars, sendVars, pipeVars, imgVars, fwdVars, sigVars, persistVars, taskVars>>
nonFwdVars == <<nonAuxVars, botVars, idxVars, sendVars, pipeVars, imgVars, redVars, sigVars, persistVars, taskVars>>
nonSigVars == <<nonAuxVars, botVars, idxVars, sendVars, pipeVars, imgVars, redVars, fwdVars, persistVars, taskVars>>
nonPersistVars == <<nonAuxVars, botVars, idxVars, sendVars, pipeVars, imgVars, redVars, fwdVars, sigVars, taskVars>>
nonTaskVars == <<nonAuxVars, botVars, idxVars, sendVars, pipeVars, imgVars, redVars, fwdVars, sigVars, persistVars>>
nonBotTaskVars == <<nonAuxVars, idxVars, sendVars, pipeVars, imgVars, redVars, fwdVars, sigVars, persistVars>>

vars == <<coreVars, extVars>>

\* The variables that the connection and RPC actions leave alone.
nonConnVars == <<dedupVars, storeVars, discVars, plugVars, cfgVars, llmVars, statusVars, auxVars>>

\* save_bots: the snapshot of the bot store that is written to bots.json.
save_bots(connected, running) == [is_connected |-> connected, is_running |-> running]

Outstanding(c) == call[c].pc \in {"inserted", "waiting"}

LiveWorkers(b) == {w \in Workers : worker[w].bot = b /\ worker[w].pc = "serving"}

(***************************************************************************)
(* napcat_login_monitor: is_connected follows the QQ login status.  Both    *)
(* steps take the locks of the bot store (get_mut, then save_bots).        *)
(***************************************************************************)
MonitorLogin(b) ==
    /\ bots_guard = 0
    /\ ~is_connected[b]
    /\ is_connected' = [is_connected EXCEPT ![b] = TRUE]
    /\ bots_file' = save_bots(is_connected', is_running)
    /\ UNCHANGED <<connections, worker, pending_requests, call, wall, ignored>>
    /\ UNCHANGED <<extVars, dedupVars, discVars, is_running, has_token, bots_guard, need_restart>>

MonitorLogout(b) ==
    /\ bots_guard = 0
    /\ is_connected[b]
    /\ is_connected' = [is_connected EXCEPT ![b] = FALSE]
    /\ bots_file' = save_bots(is_connected', is_running)
    /\ UNCHANGED <<connections, worker, pending_requests, call, wall, ignored>>
    /\ UNCHANGED <<extVars, dedupVars, discVars, is_running, has_token, bots_guard, need_restart>>

(***************************************************************************)
(* start_bot_connections: one reconciliation of the 2 s loop for bot b.    *)
(***************************************************************************)
has_connection(b) == connections[b].kind # "None"

\* Mutation: the supervisor dials for every bot without a registry entry.
SupervisorSpawn_any_bot(b, w) ==
    /\ ~has_connection(b)
    /\ worker[w].pc = "idle"
    /\ worker' = [worker EXCEPT ![w] = [bot |-> b, pc |-> "dialing", chan |-> FALSE]]
    /\ UNCHANGED <<is_connected, connections, pending_requests, call, wall, ignored>>
    /\ exited' = [exited EXCEPT ![b] = FALSE]
    /\ UNCHANGED <<nonConnVars, frames, discord_inbound>>

SupervisorSpawn(b, w) ==
    /\ is_connected[b]
    /\ ~has_connection(b)
    /\ worker[w].pc = "idle"
    /\ worker' = [worker EXCEPT ![w] = [bot |-> b, pc |-> "dialing", chan |-> FALSE]]
    /\ UNCHANGED <<is_connected, connections, pending_requests, call, wall, ignored>>
    /\ exited' = [exited EXCEPT ![b] = FALSE]
    /\ UNCHANGED <<nonConnVars, frames, discord_inbound>>

SupervisorCleanup(b) ==
    /\ ~is_connected[b]
    /\ connections[b].kind = "OneBot"
    /\ connections' = [connections EXCEPT ![b] = NoConn]
    /\ UNCHANGED <<is_connected, worker, pending_requests, call, wall, ignored>>
    /\ UNCHANGED <<nonConnVars, supVars>>

(***************************************************************************)
(* run_bot_connection.                                                     *)
(***************************************************************************)
WorkerConnected(w) ==
    /\ worker[w].pc = "dialing"
    /\ worker' = [worker EXCEPT ![w].pc = "serving", ![w].chan = TRUE]
    /\ connections' = [connections EXCEPT ![worker[w].bot] = OneBot(w)]
    /\ UNCHANGED <<is_connected, pending_requests, call, wall, ignored>>
    /\ UNCHANGED <<nonConnVars, supVars>>

WorkerDialFailed(w) ==
    /\ worker[w].pc = "dialing"
    /\ worker' = [worker EXCEPT ![w] = IdleWorker]
    /\ UNCHANGED <<is_connected, connections, pending_requests, call, wall, ignored>>
    /\ UNCHANGED <<nonConnVars, supVars>>

\* A text frame that carries an echo: resolve the pending request, if any.
WorkerRecvEcho(w, e) ==
    /\ worker[w].pc = "serving"
    /\ IF pending_requests[e] # 0
       THEN /\ pending_requests' = [pending_requests EXCEPT ![e] = 0]
            /\ call' = [c \in Calls |->
                  IF c = pending_requests[e] /\ Outstanding(c) /\ call[c].echo = e
                  THEN [call[c] EXCEPT !.got = TRUE] ELSE call[c]]
            /\ UNCHANGED ignored
       ELSE /\ ignored < 1
            /\ ignored' = ignored + 1
            /\ UNCHANGED <<pending_requests, call>>
    /\ UNCHANGED <<is_connected, connections, worker, wall>>
    /\ UNCHANGED <<nonConnVars, supVars>>

\* Close frame or read error: abort send_task and tick_task.
WorkerClose(w) ==
    /\ worker[w].pc = "serving"
    /\ worker' = [worker EXCEPT ![w].pc = "closing", ![w].chan = FALSE]
    /\ call' = [c \in Calls |->
          IF call[c].task = w /\ Outstanding(c)
          THEN Ended("aborted")
          ELSE call[c]]
    /\ UNCHANGED <<is_connected, connections, pending_requests, wall, ignored>>
    /\ UNCHANGED <<nonConnVars, supVars>>

\* unregister_connection(bot_id) at the end of run_bot_connection.
WorkerUnregister(w) ==
    /\ worker[w].pc = "closing"
    /\ connections' = [connections EXCEPT ![worker[w].bot] = NoConn]
    /\ worker' = [worker EXCEPT ![w] = IdleWorker]
    /\ UNCHANGED <<is_connected, pending_requests, call, wall, ignored>>
    /\ exited' = [exited EXCEPT ![worker[w].bot] = TRUE]
    /\ frames' = [frames EXCEPT ![w] = [recv |-> 0, handlers |-> 0]]
    /\ UNCHANGED <<nonConnVars, discord_inbound>>

(***************************************************************************)
(* BotRuntime::call_api for a OneBot bot.                                  *)
(***************************************************************************)
MakeEcho(action, now_nanos) == <<action, now_nanos>>

\* lines 174-199: look the connection up, build the echo, insert the sender.
\* t = 0: a caller of its own (event task); t = w: the tick task of worker w.
CallStart(c, b, action, t) ==
    /\ call[c].pc \in {"idle", "ended"}
    /\ \A e \in Echoes : pending_requests[e] # c
    /\ t # 0 => /\ worker[t].pc = "serving" /\ worker[t].bot = b
                /\ action = "get_login_info"
                /\ \A d \in Calls : Outstanding(d) => call[d].task # t
    /\ connections[b].kind = "OneBot"
    /\ LET echo == MakeEcho(action, wall)
           prev == pending_requests[echo]
       IN /\ pending_requests' = [pending_requests EXCEPT ![echo] = c]
          /\ call' = [d \in Calls |->
                IF d = c
                THEN [pc |-> "inserted", bot |-> b, echo |-> echo, elapsed |-> 0,
                      got |-> FALSE, closed |-> FALSE, task |-> t, outcome |-> "none"]
                ELSE IF d = prev /\ Outstanding(d)
                     THEN [call[d] EXCEPT !.closed = TRUE]
                     ELSE call[d]]
    /\ UNCHANGED <<is_connected, connections, worker, wall, ignored>>
    /\ UNCHANGED <<nonConnVars, supVars>>

\* lines 202-214: re-read the registry and hand the frame to the sender channel.
CallSend(c, writeOk) ==
    /\ call[c].pc = "inserted"
    /\ LET conn == connections[call[c].bot]
       IN IF conn.kind # "OneBot"
          THEN /\ pending_requests' = [pending_requests EXCEPT ![call[c].echo] = 0]
               /\ call' = [call EXCEPT ![c] = Ended("unregistered")]
               /\ UNCHANGED worker
          ELSE IF ~worker[conn.sender].chan
               THEN /\ pending_requests' = [pending_requests EXCEPT ![call[c].echo] = 0]
                    /\ call' = [call EXCEPT ![c] = Ended("sendfail")]
                    /\ UNCHANGED worker
               ELSE /\ call' = [call EXCEPT ![c].pc = "waiting"]
                    /\ worker' = [worker EXCEPT ![conn.sender].chan = writeOk]
                    /\ UNCHANGED pending_requests
    /\ UNCHANGED <<is_connected, connections, wall, ignored>>
    /\ UNCHANGED <<nonConnVars, supVars>>

\* line 218: the one-shot delivered the response.
CallReturn(c) ==
    /\ call[c].pc = "waiting"
    /\ call[c].got
    /\ call' = [call EXCEPT ![c] = Ended("response")]
    /\ UNCHANGED <<is_connected, connections, worker, pending_requests, wall, ignored>>
    /\ UNCHANGED <<nonConnVars, supVars>>

\* lines 219-222, Ok(Err(_)): the sender half was dropped without a value.
CallRecvErr(c) ==
    /\ call[c].pc = "waiting"
    /\ ~call[c].got
    /\ call[c].closed
    /\ pending_requests' = [pending_requests EXCEPT ![call[c].echo] = 0]
    /\ call' = [call EXCEPT ![c] = Ended("closed")]
    /\ UNCHANGED <<is_connected, connections, worker, wall, ignored>>
    /\ UNCHANGED <<nonConnVars, supVars>>

\* lines 219-222, Err(Elapsed): the 15 s timeout fired.
CallTimeout(c) ==
    /\ call[c].pc = "waiting"
    /\ ~call[c].got
    /\ ~call[c].closed
    /\ call[c].elapsed >= CALL_TIMEOUT_SECS
    /\ pending_requests' = [pending_requests EXCEPT ![call[c].echo] = 0]
    /\ call' = [call EXCEPT ![c] = Ended("timeout")]
    /\ UNCHANGED <<is_connected, connections, worker, wall, ignored>>
    /\ UNCHANGED <<nonConnVars, supVars>>

\* TickSecs seconds pass for every call that waits in tokio::time::timeout.
CallTick ==
    /\ \E c \in Calls : call[c].pc = "waiting"
    /\ \A c \in Calls : call[c].pc = "waiting" =>
          /\ call[c].elapsed < CALL_TIMEOUT_SECS
          /\ ~call[c].got
          /\ ~call[c].closed
    /\ call' = [c \in Calls |->
          IF call[c].pc = "waiting"
          THEN [call[c] EXCEPT !.elapsed = @ + TickSecs] ELSE call[c]]
    /\ UNCHANGED <<is_connected, connections, worker, pending_requests, wall, ignored>>
    /\ UNCHANGED <<nonConnVars, supVars>>

\* SystemTime advances between two readings.
AdvanceWall ==
    /\ wall < MaxNanos
    /\ wall' = wall + 1
    /\ UNCHANGED <<is_connected, connections, worker, pending_requests, call, ignored>>
    /\ UNCHANGED <<nonConnVars, supVars>>

\* A frame other than an echo reply arrives: the receive loop takes it.
WorkerRead_any(w) ==
    /\ worker[w].pc = "serving"
    /\ frames[w].recv + frames[w].handlers < MaxFrames
    /\ frames' = [frames EXCEPT ![w].recv = @ + 1]
    /\ UNCHANGED <<connVars, nonConnVars, exited, discord_inbound>>

WorkerRead(w) ==
    /\ worker[w].pc = "serving"
    /\ frames[w].recv = 0
    /\ frames[w].recv + frames[w].handlers < MaxFrames
    /\ frames' = [frames EXCEPT ![w].recv = @ + 1]
    /\ UNCHANGED <<connVars, nonConnVars, exited, discord_inbound>>

\* tokio::spawn(handle_event(..)): the loop turns to the next frame.
WorkerDispatch(w) ==
    /\ worker[w].pc = "serving"
    /\ frames[w].recv > 0
    /\ frames' = [frames EXCEPT ![w].recv = @ - 1, ![w].handlers = @ + 1]
    /\ UNCHANGED <<connVars, nonConnVars, exited, discord_inbound>>

\* A spawned handle_event task returns.
HandleEventDone(w) ==
    /\ frames[w].handlers > 0
    /\ frames' = [frames EXCEPT ![w].handlers = @ - 1]
    /\ UNCHANGED <<connVars, nonConnVars, exited, discord_inbound>>

(***************************************************************************)
(* handlers/bots.rs: create_bot_handler and copy_bot_handler.  A new bot's  *)
(* id is its platform in lower case followed by the current Unix second.   *)
(***************************************************************************)
Platforms == {"discord", "qq"}
Creations == 1..MaxCreations
NoCreation == [pc |-> "idle", id |-> <<"discord", 0>>]

new_bot_id(platform, c) ==
    <<platform, unix_secs>>

\* state.bots.insert(id, bot): an entry with the same id is replaced.
bots_insert(id, c) ==
    [i \in DOMAIN bots \cup {id} |-> IF i = id THEN c ELSE bots[i]]

\* create_bot_handler: a Discord bot is inserted at once, any other bot by
\* the spawned task after the container was provisioned.
create_bot_handler(c, platform) ==
    /\ creating[c].pc = "idle"
    /\ \A k \in Creations : k < c => creating[k].pc # "idle"
    /\ creating' = [creating EXCEPT ![c] =
          [pc |-> IF platform = "discord" THEN "done" ELSE "provisioning",
           id |-> new_bot_id(platform, c)]]
    /\ bots' = IF platform = "discord" THEN bots_insert(new_bot_id(platform, c), c) ELSE bots
    /\ UNCHANGED <<nonBotVars, unix_secs>>

\* copy_bot_handler of the bot that creation src made: the copy has the
\* platform of its source; a Discord copy is inserted at once, any other
\* after the container was provisioned.
copy_bot_handler(c, src) ==
    /\ creating[c].pc = "idle"
    /\ \A k \in Creations : k < c => creating[k].pc # "idle"
    /\ creating[src].pc = "done" /\ creating[src].id \in DOMAIN bots
    /\ creating' = [creating EXCEPT ![c] =
          [pc |-> IF creating[src].id[1] = "discord" THEN "done" ELSE "provisioning",
           id |-> new_bot_id(creating[src].id[1], c)]]
    /\ bots' = IF creating[src].id[1] = "discord"
               THEN bots_insert(new_bot_id(creating[src].id[1], c), c) ELSE bots
    /\ UNCHANGED <<nonBotVars, unix_secs>>

\* provision_napcat_bot_container returned: insert the bot, or fail.
BotProvisioned(c, ok) ==
    /\ creating[c].pc = "provisioning"
    /\ creating' = [creating EXCEPT ![c].pc = IF ok THEN "done" ELSE "failed"]
    /\ bots' = IF ok THEN bots_insert(creating[c].id, c) ELSE bots
    /\ UNCHANGED <<nonBotVars, unix_secs>>

UnixSecond ==
    /\ unix_secs < MaxUnixSecs
    /\ unix_secs' = unix_secs + 1
    /\ UNCHANGED <<nonBotVars, bots, creating>>

InitBotVars ==
    /\ bots = <<>>
    /\ creating = [c \in Creations |-> NoCreation]
    /\ unix_secs = 0

(***************************************************************************)
(* connection.rs index_discord_message: the index and the FIFO have a lock *)
(* each; the index lock is released before the FIFO lock is taken, and     *)
(* taken again for every eviction while the FIFO lock is held.             *)
(***************************************************************************)
IndexTasks == 1..MaxIndexTasks
IndexKeys == 1..MaxIndexKeys
NoIndexCall == [pc |-> "idle", key |-> 1, old |-> 1]

\* Whether another call holds the lock of the FIFO.
fifo_locked == \E t \in IndexTasks : index_call[t].pc \in {"evict", "remove"}

\* index.insert(key, ..) under the index lock.
IndexInsert(t, key) ==
    /\ index_call[t].pc = "idle"
    /\ discord_msg_index' = discord_msg_index \cup {key}
    /\ index_call' = [index_call EXCEPT ![t] = [pc |-> "push", key |-> key, old |-> 1]]
    /\ UNCHANGED <<nonIdxVars, discord_msg_fifo>>

\* fifo.lock(), fifo.push_back(key).
IndexPush(t) ==
    /\ index_call[t].pc = "push"
    /\ ~fifo_locked
    /\ discord_msg_fifo' = Append(discord_msg_fifo, index_call[t].key)
    /\ index_call' = [index_call EXCEPT ![t].pc = "evict"]
    /\ UNCHANGED <<nonIdxVars, discord_msg_index>>

\* The loop test: pop the front while the FIFO is over the limit, else
\* return and release the FIFO lock.
IndexPop(t) ==
    /\ index_call[t].pc = "evict"
    /\ IF Len(discord_msg_fifo) > DISCORD_MSG_INDEX_MAX
       THEN /\ discord_msg_fifo' = Tail(discord_msg_fifo)
            /\ index_call' = [index_call EXCEPT ![t].pc = "remove",
                                                ![t].old = Head(discord_msg_fifo)]
       ELSE /\ index_call' = [index_call EXCEPT ![t] = NoIndexCall]
            /\ UNCHANGED discord_msg_fifo
    /\ UNCHANGED <<nonIdxVars, discord_msg_index>>

\* discord_msg_index.lock().await.remove(&old).
IndexRemove(t) ==
    /\ index_call[t].pc = "remove"
    /\ discord_msg_index' = discord_msg_index \ {index_call[t].old}
    /\ index_call' = [index_call EXCEPT ![t].pc = "evict"]
    /\ UNCHANGED <<nonIdxVars, discord_msg_fifo>>

InitIdxVars ==
    /\ discord_msg_index = {}
    /\ discord_msg_fifo = <<>>
    /\ index_call = [t \in IndexTasks |-> NoIndexCall]

(***************************************************************************)
(* api.rs: the Discord materialisation of a reply.  A text is a sequence   *)
(* of characters; the limit of 2000 characters is scaled down.             *)
(***************************************************************************)
Chars == {"a", " ", "\n"}
ImageIds == 1..3

\* The texts of SendChars characters (3500 at the scale of the limit) as
\* extract_base64_cq_images returns them: trimmed at both ends.
SendChars == (7 * DISCORD_MAX_CONTENT_CHARS) \div 4
SendTexts == {t \in [1..SendChars -> Chars] : t[1] = "a" /\ t[SendChars] = "a"}

\* str::trim().is_empty()
trim_is_empty(str) == \A i \in 1..Len(str) : str[i] \in {" ", "\n"}

RECURSIVE trim_end_matches_newline(_)
trim_end_matches_newline(str) ==
    IF str # <<>> /\ str[Len(str)] = "\n"
    THEN trim_end_matches_newline(SubSeq(str, 1, Len(str) - 1))
    ELSE str

\* str::split_inclusive('\n'): every part but the last ends with the newline.
RECURSIVE split_inclusive(_)
split_inclusive(str) ==
    IF str = <<>> THEN <<>>
    ELSE LET ends == {i \in 1..Len(str) : str[i] = "\n"}
             n == IF ends = {} THEN Len(str)
                  ELSE CHOOSE i \in ends : \A j \in ends : i <= j
         IN  <<SubSeq(str, 1, n)>> \o split_inclusive(SubSeq(str, n + 1, Len(str)))

\* Mutation: a line that is too long is not cut.
hard_split_whole(part) ==
    [out |-> <<>>, buf |-> part]

\* The hard split of a very long line: full chunks, and the rest in buf.
hard_split(part) ==
    LET full == Len(part) \div DISCORD_MAX_CONTENT_CHARS
    IN  [out |-> [i \in 1..full |-> SubSeq(part, (i - 1) * DISCORD_MAX_CONTENT_CHARS + 1,
                                           i * DISCORD_MAX_CONTENT_CHARS)],
         buf |-> SubSeq(part, full * DISCORD_MAX_CONTENT_CHARS + 1, Len(part))]

\* The loop of split_discord_content over the remaining parts.
RECURSIVE split_parts(_, _, _)
split_parts(parts, out, cur) ==
    IF parts = <<>>
    THEN IF trim_is_empty(cur) THEN out ELSE Append(out, trim_end_matches_newline(cur))
    ELSE LET part == Head(parts)
             flushed == IF trim_is_empty(cur) THEN out
                        ELSE Append(out, trim_end_matches_newline(cur))
             kept == IF trim_is_empty(cur) THEN cur ELSE <<>>
         IN  IF Len(cur) + Len(part) <= DISCORD_MAX_CONTENT_CHARS
             THEN split_parts(Tail(parts), out, cur \o part)
             ELSE IF Len(part) <= DISCORD_MAX_CONTENT_CHARS
                  THEN split_parts(Tail(parts), flushed, kept \o part)
                  ELSE split_parts(Tail(parts), flushed \o hard_split(part).out,
                                   hard_split(part).buf)

split_discord_content(content) == split_parts(split_inclusive(content), <<>>, <<>>)

\* extract_base64_cq_images on the image segments: an image whose base64
\* text was seen before is left out.
RECURSIVE extract_files(_, _)
extract_files(images, seen) ==
    IF images = <<>> THEN <<>>
    ELSE IF Head(images) \in seen THEN extract_files(Tail(images), seen)
         ELSE <<Head(images)>> \o extract_files(Tail(images), seen \cup {Head(images)})

json_post(chunk) == [kind |-> "json", content |-> chunk, files |-> <<>>]
multipart_post(chunk, batch) == [kind |-> "multipart", content |-> chunk, files |-> batch]

\* The multipart POSTs for the files that did not fit the first one.
RECURSIVE remaining_posts(_)
remaining_posts(files) ==
    IF files = <<>> THEN <<>>
    ELSE IF Len(files) <= DISCORD_MAX_ATTACHMENTS THEN <<multipart_post(<<>>, files)>>
         ELSE <<multipart_post(<<>>, SubSeq(files, 1, DISCORD_MAX_ATTACHMENTS))>>
              \o remaining_posts(SubSeq(files, DISCORD_MAX_ATTACHMENTS + 1, Len(files)))

\* The JSON POSTs of the chunks after the first.
RECURSIVE later_posts(_)
later_posts(chunks) ==
    IF chunks = <<>> THEN <<>>
    ELSE (IF trim_is_empty(Head(chunks)) THEN <<>> ELSE <<json_post(Head(chunks))>>)
         \o later_posts(Tail(chunks))

\* discord_send_channel_message when every POST is answered with success.
discord_send_channel_message(content, files) ==
    LET split == split_discord_content(content)
        chunks == IF split = <<>> THEN <<<<>>>> ELSE split
        take == IF Len(files) <= DISCORD_MAX_ATTACHMENTS THEN Len(files)
                ELSE DISCORD_MAX_ATTACHMENTS
        first_posts ==
            IF files = <<>>
            THEN IF trim_is_empty(chunks[1]) THEN <<>> ELSE <<json_post(chunks[1])>>
            ELSE <<multipart_post(chunks[1], SubSeq(files, 1, take))>>
                 \o remaining_posts(SubSeq(files, take + 1, Len(files)))
    IN  IF trim_is_empty(content) /\ files = <<>> THEN <<>>
        ELSE first_posts \o later_posts(Tail(chunks))

\* The first SendReply output for a Discord channel, with the given text and
\* image segments.
DiscordSendReply(text, images) ==
    /\ send_input = <<>>
    /\ send_input' = <<[text |-> text, images |-> images]>>
    /\ discord_posts' = discord_send_channel_message(text, extract_files(images, {}))
    /\ UNCHANGED nonSendVars

InitSendVars ==
    /\ send_input = <<>>
    /\ discord_posts = <<>>

(***************************************************************************)
(* multimodal/bundle.rs: the MediaBundle pipeline.  An item is named by    *)
(* its index in the input; image, video and record items are prepared the  *)
(* same way and are all "media" here, "media_failed" is one whose download *)
(* or preparation fails.                                                   *)
(***************************************************************************)
ItemKinds == {"media", "media_failed", "file", "other"}
BundleInputs == UNION {[1..n -> ItemKinds] : n \in 0..MaxItems}
LlmResults == {"ok", "RequestTooLarge", "413", "500"}

\* LlmCallError::RequestTooLarge or HTTP status 413.
retryable(result) == result \in {"RequestTooLarge", "413"}

\* The indices of the items of the given kinds, in input order.
RECURSIVE items_of(_, _, _)
items_of(items, kinds, i) ==
    IF i > Len(items) THEN <<>>
    ELSE (IF items[i] \in kinds THEN <<i>> ELSE <<>>) \o items_of(items, kinds, i + 1)

build_ctx_pretty(media_meta, file_meta, failures, dropped) ==
    [type |-> "ctx", items |-> media_meta \o file_meta, items_failed |-> failures,
     items_dropped_due_to_budget |-> dropped]

\* The label and the data part that every prepared media item adds.
RECURSIVE attachment_parts(_)
attachment_parts(media_meta) ==
    IF media_meta = <<>> THEN <<>>
    ELSE <<[type |-> "label", index |-> Head(media_meta)],
           [type |-> "data", index |-> Head(media_meta)]>>
         \o attachment_parts(Tail(media_meta))

\* The user content of the request: context, forwarded text, the note about
\* failed items, the attachments.
content_parts(media_meta, file_meta, failures, has_text) ==
    <<build_ctx_pretty(media_meta, file_meta, failures, <<>>)>>
    \o (IF has_text THEN <<[type |-> "text"]>> ELSE <<>>)
    \o (IF failures # <<>> THEN <<[type |-> "note"]>> ELSE <<>>)
    \o attachment_parts(media_meta)

\* Mutation: one array element is popped.
pop_attachment_once(content) ==
    SubSeq(content, 1, Len(content) - 1)

\* arr.pop() twice on the content array.
pop_attachment(content) ==
    SubSeq(content, 1, Len(content) - 2)

NoBundle ==
    [pc |-> "idle", media_meta |-> <<>>, file_meta |-> <<>>, failures |-> <<>>,
     dropped |-> <<>>, content |-> <<>>, has_text |-> FALSE, prepared |-> 0,
     calls |-> 0, last |-> "none"]

\* The pipeline up to the first LLM call: prepare the items, give up when
\* there is nothing to analyse, build the request.
BundleStart(items, has_text) ==
    LET media_meta == items_of(items, {"media"}, 1)
        file_meta == items_of(items, {"file"}, 1)
        failures == items_of(items, {"media_failed", "other"}, 1)
    IN  /\ bundle.pc = "idle"
        /\ bundle' =
              IF media_meta = <<>> /\ file_meta = <<>> /\ ~has_text
              THEN [NoBundle EXCEPT !.pc = "error", !.failures = failures]
              ELSE [NoBundle EXCEPT !.pc = "calling", !.media_meta = media_meta,
                                    !.file_meta = file_meta, !.failures = failures,
                                    !.has_text = has_text, !.prepared = Len(media_meta),
                                    !.content = content_parts(media_meta, file_meta,
                                                              failures, has_text)]
        /\ UNCHANGED <<nonPipeVars, frames_job, direct_job>>

\* call_chat_completions returned: reply, drop the last media item and call
\* again, or report the error.
BundleCall(result) ==
    LET b == bundle
        media_meta == SubSeq(b.media_meta, 1, Len(b.media_meta) - 1)
        dropped == Append(b.dropped, b.media_meta[Len(b.media_meta)])
        popped == pop_attachment(b.content)
    IN  /\ b.pc = "calling"
        /\ bundle' =
              IF result = "ok"
              THEN [b EXCEPT !.pc = "replied", !.calls = @ + 1, !.last = result]
              ELSE IF retryable(result) /\ b.media_meta # <<>>
              THEN [b EXCEPT !.calls = @ + 1, !.last = result,
                             !.media_meta = media_meta, !.dropped = dropped,
                             !.content = [popped EXCEPT ![1] =
                                 build_ctx_pretty(media_meta, b.file_meta, b.failures, dropped)]]
              ELSE [b EXCEPT !.pc = "error", !.calls = @ + 1, !.last = result]
        /\ UNCHANGED <<nonPipeVars, frames_job, direct_job>>

(***************************************************************************)
(* multimodal/video/mod.rs, frames mode.                                   *)
(***************************************************************************)
\* video/frames.rs evenly_spaced_indices: indices from 0.
evenly_spaced_indices(total, keep) ==
    IF keep = 0 \/ total = 0 THEN <<>>
    ELSE IF keep >= total THEN [i \in 1..total |-> i - 1]
    ELSE IF keep = 1 THEN <<total \div 2>>
    ELSE [i \in 1..keep |-> ((i - 1) * (total - 1)) \div (keep - 1)]

\* Mutation: the number of frames is kept.
halve_keep_same(keep) ==
    keep

\* keep.div_ceil(2).max(1)
halve_keep(keep) ==
    IF (keep + 1) \div 2 > 1 THEN (keep + 1) \div 2 ELSE 1

NoFramesJob == [pc |-> "idle", total |-> 0, keep |-> 0, selected |-> 0,
                calls |-> 0, last |-> "none"]

\* extract_video_frames_as_data_urls returned total frames: without a frame
\* the pipeline reports the error, else the loop begins with all of them.
FramesStart(total) ==
    /\ frames_job.pc = "idle"
    /\ frames_job' =
          IF total = 0 THEN [NoFramesJob EXCEPT !.pc = "error"]
          ELSE [NoFramesJob EXCEPT !.pc = "calling", !.total = total, !.keep = total,
                   !.selected = Len(evenly_spaced_indices(total, total))]
    /\ UNCHANGED <<nonPipeVars, bundle, direct_job>>

\* One turn of the loop from the answer of call_chat_completions on.
FramesCall(result) ==
    LET j == frames_job
        keep == halve_keep(j.keep)
    IN  /\ j.pc = "calling"
        /\ frames_job' =
              IF result = "ok"
              THEN [j EXCEPT !.pc = "replied", !.calls = @ + 1, !.last = result]
              ELSE IF retryable(result) /\ j.keep > 1
              THEN [j EXCEPT !.pc = IF j.calls + 1 < FRAMES_ATTEMPTS THEN "calling" ELSE "error",
                             !.calls = @ + 1, !.last = result, !.keep = keep,
                             !.selected = IF j.calls + 1 < FRAMES_ATTEMPTS
                                          THEN Len(evenly_spaced_indices(j.total, keep))
                                          ELSE @]
              ELSE [j EXCEPT !.pc = "error", !.calls = @ + 1, !.last = result]
        /\ UNCHANGED <<nonPipeVars, bundle, direct_job>>

(***************************************************************************)
(* multimodal/video/mod.rs, direct mode.  Sizes are in units of 1000       *)
(* bytes.                                                                  *)
(***************************************************************************)
\* Mutation: the budget is kept.
shrink_budget_none(max_raw_bytes) ==
    max_raw_bytes

\* (max_raw_bytes as f64 * 0.7) as u64
shrink_budget(max_raw_bytes) ==
    (max_raw_bytes * 7) \div 10

NoDirectJob == [pc |-> "idle", max_raw_bytes |-> 0, calls |-> 0, attempts |-> 0,
                last |-> "none"]

\* The budget was computed from max_request_bytes: too small a budget is
\* reported, else the loop begins.
DirectStart(max_raw_bytes) ==
    /\ direct_job.pc = "idle"
    /\ direct_job' =
          IF max_raw_bytes < MIN_RAW_BYTES THEN [NoDirectJob EXCEPT !.pc = "error"]
          ELSE [NoDirectJob EXCEPT !.pc = "calling", !.max_raw_bytes = max_raw_bytes]
    /\ UNCHANGED <<nonPipeVars, bundle, frames_job>>

\* One turn of the loop: prepare_video_data_url_with_budget, then the answer
\* of call_chat_completions.
DirectCall(prepared, result) ==
    LET j == direct_job
    IN  /\ j.pc = "calling"
        /\ direct_job' =
              IF ~prepared
              THEN [j EXCEPT !.pc = "error", !.last = "prepare"]
              ELSE IF result = "ok"
              THEN [j EXCEPT !.pc = "replied", !.calls = @ + 1, !.attempts = @ + 1,
                             !.last = result]
              ELSE IF retryable(result)
              THEN [j EXCEPT !.pc = IF j.attempts + 1 < DIRECT_ATTEMPTS THEN "calling" ELSE "error",
                             !.calls = @ + 1, !.attempts = @ + 1, !.last = result,
                             !.max_raw_bytes = shrink_budget(@)]
              ELSE [j EXCEPT !.pc = "error", !.calls = @ + 1, !.attempts = @ + 1,
                             !.last = result]
        /\ UNCHANGED <<nonPipeVars, bundle, frames_job>>

InitPipeVars ==
    /\ bundle = NoBundle
    /\ frames_job = NoFramesJob
    /\ direct_job = NoDirectJob

(***************************************************************************)
(* multimodal/image.rs prepare_image_data_url.  The encoder's output size  *)
(* is the environment's choice at every encode; sizes are in bytes.        *)
(***************************************************************************)
ImageBudgets == {40000, 50000, 60000}
JpegLens == {30000, 48000, 58000, 70000}
ImageSides == {1, 3, 40}
JpegQualities == {20, 80, 95}

clamp(x, lo, hi) == IF x < lo THEN lo ELSE IF x > hi THEN hi ELSE x

\* The length of format!("data:image/jpeg;base64,{}", BASE64.encode(jpeg)).
data_url_len(jpeg_len) == DATA_URL_PREFIX_LEN + 4 * ((jpeg_len + 2) \div 3)

\* ((side as f64) * 0.85).round().max(1.0) as u32
shrink_side(side) ==
    IF (side * 85 + 50) \div 100 < 1 THEN 1 ELSE (side * 85 + 50) \div 100

NoImageJob ==
    [pc |-> "idle", budget |-> 0, max_output_bytes |-> 0, jpeg_quality |-> 0,
     quality |-> 0, width |-> 0, height |-> 0, encodes |-> 0, url_len |-> 0]

\* The call up to the loop: the image is decoded and scaled to width x
\* height, quality and budget are clamped.
ImageStart(width, height, jpeg_quality, budget) ==
    /\ image_job.pc = "idle"
    /\ image_job' = [NoImageJob EXCEPT
          !.pc = "encoding", !.budget = budget,
          !.max_output_bytes = clamp(budget, MIN_OUTPUT_BYTES, MAX_OUTPUT_BYTES),
          !.jpeg_quality = jpeg_quality,
          !.quality = clamp(jpeg_quality, MIN_QUALITY, MAX_QUALITY),
          !.width = width, !.height = height]
    /\ UNCHANGED nonImgVars

\* One turn of the loop: encode_jpeg gave jpeg_len bytes.
ImageEncode(jpeg_len) ==
    LET j == image_job
        new_w == shrink_side(j.width)
        new_h == shrink_side(j.height)
        turned == IF j.encodes + 1 < IMAGE_ATTEMPTS THEN "encoding" ELSE "too_large"
    IN  /\ j.pc = "encoding"
        /\ image_job' =
              IF jpeg_len <= j.max_output_bytes
              THEN [j EXCEPT !.pc = "ok", !.encodes = @ + 1, !.url_len = data_url_len(jpeg_len)]
              ELSE IF j.quality > 50
              THEN [j EXCEPT !.pc = turned, !.encodes = @ + 1,
                             !.quality = IF @ - 10 > 50 THEN @ - 10 ELSE 50]
              ELSE IF new_w = j.width /\ new_h = j.height
              THEN [j EXCEPT !.pc = "too_large", !.encodes = @ + 1]
              ELSE [j EXCEPT !.pc = turned, !.encodes = @ + 1,
                             !.width = new_w, !.height = new_h,
                             !.quality = clamp(j.jpeg_quality, MIN_QUALITY, MAX_QUALITY)]
        /\ UNCHANGED nonImgVars

InitImgVars ==
    /\ image_job = NoImageJob

(***************************************************************************)
(* Privacy redaction: llm_forward/redact.rs redact_qq_ids and              *)
(* runtime/api.rs redact_sensitive_ids_plaintext.  A text is a sequence of *)
(* characters; a character outside ASCII is written by its reading between *)
(* angle brackets and is one element, which no ASCII test matches.         *)
(***************************************************************************)
Digits == {"0", "1", "2", "3", "4", "5", "6", "7", "8", "9"}
Id123456789 == <<"1", "2", "3", "4", "5", "6", "7", "8", "9">>
Id987654 == <<"9", "8", "7", "6", "5", "4">>
Id55667788 == <<"5", "5", "6", "6", "7", "7", "8", "8">>
KickText ==
    <<"<ti>", "<chu>", " ">> \o Id123456789 \o <<"<comma>", "@">> \o Id987654
        \o <<" ", "<cha>", "<kan>", " ", "q", "q", "=">> \o Id55667788
ParenText == <<"(">> \o Id123456789 \o <<")", " ", "U", "I", "N", "=">> \o Id987654
ShortText == <<"@", "1", "2", "3", "4", " ">> \o Id55667788
RedactTexts == {KickText, ParenText, ShortText}
SensitiveLists == {<<>>, <<Id987654>>, <<Id55667788>>, <<Id123456789, Id55667788>>}
Nicknames == {<<>>, <<"<xiao>", "<ming>">>}
AtUser == <<"@", "<yong>", "<hu>">>
ParenHidden == <<"(", "<yi>", "<yin>", "<cang>", ")">>
Hidden == <<"<yi>", "<yin>", "<cang>">>
Member == <<"<cheng>", "<yuan>">>

to_ascii_lowercase(c) ==
    IF c = "Q" THEN "q" ELSE IF c = "U" THEN "u" ELSE IF c = "I" THEN "i"
    ELSE IF c = "N" THEN "n" ELSE c

\* The end (exclusive) of the run of at most max_len digits from start.
digit_span(s, start, max_len) ==
    CHOOSE j \in start..(Len(s) + 1) :
        /\ \A k \in start..(j - 1) : s[k] \in Digits
        /\ j - start <= max_len
        /\ j = Len(s) + 1 \/ s[j] \notin Digits \/ j - start = max_len

RECURSIVE redact_scan(_, _, _, _)
redact_scan(s, i, last, out) ==
    IF i > Len(s) THEN out \o SubSeq(s, last, Len(s))
    ELSE
    LET n == Len(s)
        j1 == digit_span(s, i + 1, 12)
        is_qq == /\ i + 3 <= n
                 /\ to_ascii_lowercase(s[i]) = "q"
                 /\ to_ascii_lowercase(s[i + 1]) = "q"
                 /\ to_ascii_lowercase(s[i + 2]) = "="
                 /\ s[i + 3] \in Digits
        is_uin == /\ i + 4 <= n
                  /\ to_ascii_lowercase(s[i]) = "u"
                  /\ to_ascii_lowercase(s[i + 1]) = "i"
                  /\ to_ascii_lowercase(s[i + 2]) = "n"
                  /\ s[i + 3] = "="
                  /\ s[i + 4] \in Digits
        j3 == digit_span(s, i + 3, 12)
        j4 == digit_span(s, i + 4, 12)
    IN  IF s[i] = "@" /\ j1 - (i + 1) \in 5..12
        THEN redact_scan(s, j1, j1, out \o SubSeq(s, last, i - 1) \o AtUser)
        ELSE IF s[i] = "(" /\ j1 - (i + 1) \in 5..12 /\ j1 <= n /\ s[j1] = ")"
        THEN redact_scan(s, j1 + 1, j1 + 1, out \o SubSeq(s, last, i - 1) \o ParenHidden)
        ELSE IF is_qq /\ j3 - (i + 3) \in 5..12
        THEN redact_scan(s, j3, j3, out \o SubSeq(s, last, i + 2) \o Hidden)
        ELSE IF ~is_qq /\ is_uin /\ j4 - (i + 4) \in 5..12
        THEN redact_scan(s, j4, j4, out \o SubSeq(s, last, i + 3) \o Hidden)
        ELSE redact_scan(s, i + 1, last, out)

redact_qq_ids(input) == redact_scan(input, 1, 1, <<>>)

\* str::contains and str::replace.
contains(s, pat) ==
    \E i \in 1..(Len(s) - Len(pat) + 1) : SubSeq(s, i, i + Len(pat) - 1) = pat

RECURSIVE replace_from(_, _, _, _)
replace_from(s, i, pat, repl) ==
    IF i > Len(s) THEN <<>>
    ELSE IF i + Len(pat) - 1 <= Len(s) /\ SubSeq(s, i, i + Len(pat) - 1) = pat
    THEN repl \o replace_from(s, i + Len(pat), pat, repl)
    ELSE <<s[i]>> \o replace_from(s, i + 1, pat, repl)

RECURSIVE extract_digit_tokens(_, _, _, _, _)
extract_digit_tokens(s, i, min_len, max_len, out) ==
    IF i > Len(s) THEN out
    ELSE IF s[i] \notin Digits THEN extract_digit_tokens(s, i + 1, min_len, max_len, out)
    ELSE LET end == digit_span(s, i, Len(s))
             token == SubSeq(s, i, end - 1)
             seen == \E k \in 1..Len(out) : out[k] = token
         IN  IF end - i < min_len \/ end - i > max_len \/ seen
             THEN extract_digit_tokens(s, end, min_len, max_len, out)
             ELSE extract_digit_tokens(s, end, min_len, max_len, Append(out, token))

NoRedactJob ==
    [pc |-> "idle", model_output |-> FALSE, input |-> <<>>, out |-> <<>>,
     ids |-> <<>>, tokens |-> <<>>, attempts |-> 0]

\* The end of the loop over the sensitive ids leads to the loop over the
\* digit tokens, and its end to the return.
redact_advance(job) ==
    IF job.pc = "ids" /\ job.ids = <<>>
    THEN LET tokens == extract_digit_tokens(job.out, 1, 5, 12, <<>>)
         IN  [job EXCEPT !.pc = IF tokens = <<>> THEN "done" ELSE "tokens",
                         !.tokens = tokens]
    ELSE IF job.pc = "tokens" /\ (job.tokens = <<>> \/ job.attempts >= MAX_LOOKUPS)
    THEN [job EXCEPT !.pc = "done", !.tokens = <<>>]
    ELSE job

\* A text is sent: a model output has gone through redact_qq_ids first
\* (llm_forward.rs), every text goes through sanitize_outgoing_text.  The
\* texts hold no CQ segment, so protect_cq_segments leaves them as they are.
RedactStart(text, model_output, sensitive_ids) ==
    /\ redact_job.pc = "idle"
    /\ redact_job' = redact_advance([NoRedactJob EXCEPT
          !.pc = "ids", !.model_output = model_output, !.input = text,
          !.out = IF model_output THEN redact_qq_ids(text) ELSE text,
          !.ids = sensitive_ids])
    /\ UNCHANGED nonRedVars

\* One turn of the loop over the sensitive ids; name is the answer of the
\* name lookup, empty when there is none.
RedactSensitiveId(name) ==
    LET id == Head(redact_job.ids)
        replacement == IF name = <<>> THEN Member ELSE name
    IN  /\ redact_job.pc = "ids"
        /\ redact_job.ids # <<>>
        /\ redact_job' = redact_advance([redact_job EXCEPT
              !.ids = Tail(@),
              !.out = IF contains(@, id) THEN replace_from(@, 1, id, replacement) ELSE @])
        /\ UNCHANGED nonRedVars

\* One turn of the loop over the digit tokens that are left.
RedactDigitToken(name) ==
    LET token == Head(redact_job.tokens)
    IN  /\ redact_job.pc = "tokens"
        /\ redact_job.tokens # <<>>
        /\ redact_job' = redact_advance(
              IF ~contains(redact_job.out, token)
              THEN [redact_job EXCEPT !.tokens = Tail(@)]
              ELSE [redact_job EXCEPT
                      !.tokens = Tail(@), !.attempts = @ + 1,
                      !.out = IF name = <<>> THEN @ ELSE replace_from(@, 1, token, name)])
        /\ UNCHANGED nonRedVars

InitRedVars ==
    /\ redact_job = NoRedactJob

(***************************************************************************)
(* message/reply/forward.rs collect_forward_media.  A message is its array *)
(* of segments; url and file are numbers, 0 for the empty string, and the  *)
(* url is the one decode_basic_html_entities returned.                     *)
(***************************************************************************)
MediaStyles == {"url", "file", "mixed", "bare"}
PerMessage == {1, 5, 25}

image_seg(k, distinct, style) ==
    LET id == ((k - 1) % distinct) + 1
    IN  [type |-> "image",
         url |-> IF style = "url" \/ (style = "mixed" /\ k % 2 = 1) THEN id ELSE 0,
         file |-> IF style = "bare" THEN 0 ELSE id,
         content |-> <<>>]

\* The messages that hold images 1..images, per_msg of them in a message
\* and a text segment at the end of each message.
image_messages(images, distinct, per_msg, style) ==
    [m \in 1..((images + per_msg - 1) \div per_msg) |->
        [s \in 1..(IF m * per_msg <= images THEN per_msg ELSE images - (m - 1) * per_msg)
            |-> image_seg((m - 1) * per_msg + s, distinct, style)]
        \o <<[type |-> "text", url |-> 0, file |-> 0, content |-> <<>>]>>]

\* The messages wrapped in forward segments until they are levels deep.
RECURSIVE nested_forward(_, _)
nested_forward(messages, levels) ==
    IF levels <= 1 THEN messages
    ELSE <<<<[type |-> "forward", url |-> 0, file |-> 0,
              content |-> nested_forward(messages, levels - 1)]>>>>

media_key(seg) ==
    IF seg.url # 0 THEN <<seg.type, "url", seg.url>> ELSE <<seg.type, "file", seg.file>>

at_limit_late(st) ==
    Len(st.out) > FORWARD_MEDIA_MAX_ITEMS
at_limit(st) ==
    Len(st.out) >= FORWARD_MEDIA_MAX_ITEMS

\* st is [out, seen, truncated, returned]; returned says that the call has
\* left its loops through a return.
RECURSIVE collect_forward_media_from_messages(_, _, _)
RECURSIVE collect_messages(_, _, _, _)
RECURSIVE collect_segments(_, _, _, _)
collect_segments(arr, s, depth, st) ==
    IF s > Len(arr) THEN st
    ELSE IF st.truncated \/ at_limit(st)
    THEN [st EXCEPT !.truncated = at_limit(st), !.returned = TRUE]
    ELSE LET seg == arr[s]
         IN  IF seg.type = "forward"
             THEN collect_segments(arr, s + 1, depth,
                      collect_forward_media_from_messages(seg.content, depth + 1, st))
             ELSE IF seg.type \notin {"image", "video", "record", "file"}
                     \/ (seg.url = 0 /\ seg.file = 0)
                     \/ media_key(seg) \in st.seen
             THEN collect_segments(arr, s + 1, depth, st)
             ELSE collect_segments(arr, s + 1, depth,
                      [st EXCEPT !.seen = @ \cup {media_key(seg)},
                                 !.out = Append(@, [type |-> seg.type, name |-> seg.file,
                                                    file |-> seg.file, url |-> seg.url])])

collect_messages(messages, m, depth, st) ==
    IF m > Len(messages) THEN st
    ELSE IF st.truncated \/ at_limit(st)
    THEN [st EXCEPT !.truncated = at_limit(st), !.returned = TRUE]
    ELSE LET r == collect_segments(messages[m], 1, depth, st)
         IN  IF r.returned THEN r ELSE collect_messages(messages, m + 1, depth, r)

collect_forward_media_from_messages(messages, depth, st) ==
    IF depth >= FORWARD_MAX_DEPTH \/ st.truncated \/ at_limit(st)
    THEN [st EXCEPT !.truncated = at_limit(st)]
    ELSE [collect_messages(messages, 1, depth, st) EXCEPT !.returned = FALSE]

NoForwardJob ==
    [pc |-> "idle", images |-> 0, distinct |-> 1, levels |-> 1, per_msg |-> 1,
     style |-> "url", media |-> <<>>, truncated |-> FALSE]

\* build_reply_context is given a forward and collects its media.
collect_forward_media(images, distinct, levels, per_msg, style) ==
    LET st == collect_forward_media_from_messages(
                  nested_forward(image_messages(images, distinct, per_msg, style), levels), 0,
                  [out |-> <<>>, seen |-> {}, truncated |-> FALSE, returned |-> FALSE])
    IN  /\ forward_job.pc = "idle"
        /\ forward_job' = [pc |-> "done", images |-> images, distinct |-> distinct,
                           levels |-> levels, per_msg |-> per_msg, style |-> style,
                           media |-> st.out, truncated |-> st.truncated]
        /\ UNCHANGED nonFwdVars

InitFwdVars ==
    /\ forward_job = NoForwardJob

(***************************************************************************)
(* plugin/verifier.rs.  A string is its sequence of bytes.  SHA-256 is a   *)
(* block of one fixed length that names its input, Ed25519 a signature     *)
(* that names the key and the message it was made with.                    *)
(***************************************************************************)
SignIds == {<<"p">>, <<"p", "1">>, <<"q">>}
SignVersions == {<<"1">>, <<"1", "1">>, <<"2">>}
SignCodes == {<<"x">>, <<"y">>}
SigningKeys == {"official", "other"}

sha256(data) == <<[sha256 |-> data]>>

\* message = code_hash ++ plugin_id.as_bytes() ++ version.as_bytes()
signed_message(plugin_id, version, code) == sha256(code) \o plugin_id \o version

base64_encode(bytes) == [base64 |-> bytes]
base64_decode(text) == text.base64

sign_plugin(private_key, plugin_id, version, code) ==
    base64_encode([key |-> private_key, message |-> signed_message(plugin_id, version, code)])

verify(plugin_id, version, code, signature_b64) ==
    LET signature == base64_decode(signature_b64)
    IN  /\ signature.key = "official"
        /\ signature.message = signed_message(plugin_id, version, code)

NoVerifyJob ==
    [pc |-> "idle", key |-> "official", signed |-> <<>>, checked |-> <<>>,
     signature |-> base64_encode(<<>>), result |-> FALSE]

\* The signing service signs a plugin.
SignPlugin(private_key, plugin_id, version, code) ==
    /\ verify_job.pc = "idle"
    /\ verify_job' = [NoVerifyJob EXCEPT
          !.pc = "signed", !.key = private_key,
          !.signed = <<plugin_id, version, code>>,
          !.signature = sign_plugin(private_key, plugin_id, version, code)]
    /\ UNCHANGED nonSigVars

\* The signature is verified for a plugin.
VerifyPlugin(plugin_id, version, code) ==
    /\ verify_job.pc = "signed"
    /\ verify_job' = [verify_job EXCEPT
          !.pc = "verified",
          !.checked = <<plugin_id, version, code>>,
          !.result = verify(plugin_id, version, code, verify_job.signature)]
    /\ UNCHANGED nonSigVars

InitSigVars ==
    /\ verify_job = NoVerifyJob

(***************************************************************************)
(* persistence.rs save_bots next to the tasks that call it (the login      *)
(* monitor, docker_status_sync_loop, the Discord tasks, the handlers).     *)
(* Each task changes a bot under its guard, drops the guard and calls      *)
(* save_bots, which collects the store and then writes the file.           *)
(***************************************************************************)
Savers == 1..MaxSavers
NoSaver == [pc |-> "idle", list |-> <<>>, written |-> FALSE]

\* A task sets is_connected of bot b to v (get_mut, assignment, guard dropped).
SaverMutate(t, b, v) ==
    /\ saver[t].pc = "idle"
    /\ bot_flags' = [bot_flags EXCEPT ![b] = v]
    /\ saver' = [saver EXCEPT ![t].pc = "collect"]
    /\ UNCHANGED <<nonPersistVars, bots_json>>

\* save_bots: let list = bots.iter().map(|r| r.value().clone()).collect().
SaverCollect(t) ==
    /\ saver[t].pc = "collect"
    /\ saver' = [saver EXCEPT ![t].pc = "write", ![t].list = <<bot_flags>>]
    /\ UNCHANGED <<nonPersistVars, bot_flags, bots_json>>

\* save_bots: fs::write(BOTS_FILE, json), which succeeds or fails.
SaverWrite(t, ok) ==
    /\ saver[t].pc = "write"
    /\ bots_json' = IF ok THEN saver[t].list[1] ELSE bots_json
    /\ saver' = [saver EXCEPT ![t].pc = "done", ![t].written = ok]
    /\ UNCHANGED <<nonPersistVars, bot_flags>>

InitPersistVars ==
    /\ bot_flags = [b \in BotIds |-> FALSE]
    /\ bots_json = [b \in BotIds |-> FALSE]
    /\ saver = [t \in Savers |-> NoSaver]

(***************************************************************************)
(* handlers/bots.rs: the BackgroundTask of a bot creation.  The handler    *)
(* inserts the task under an id made of the bot id and the Unix second and *)
(* spawns the provisioning, which reports to the task of that id.          *)
(***************************************************************************)
new_task_id(bot_id) ==
    <<bot_id, unix_secs>>

\* state.tasks.insert(task_id, task): a task of the same id is replaced.
tasks_insert(task_id, task) ==
    [i \in DOMAIN tasks \cup {task_id} |-> IF i = task_id THEN task ELSE tasks[i]]

\* task_update: the task of that id, if there is one, is changed by f.
task_update(task_id, task) ==
    IF task_id \in DOMAIN tasks THEN [tasks EXCEPT ![task_id] = task] ELSE tasks

task_progress(task_id, current) ==
    task_update(task_id, [state |-> "Running", current |-> current])

task_fail(task_id) ==
    task_update(task_id, [state |-> "Error", current |-> tasks[task_id].current])

task_success(task_id) ==
    task_update(task_id, [state |-> "Success", current |-> tasks[task_id].current])

\* create_bot_handler with its task: a Discord bot is inserted at once and
\* has no task; for any other bot the task is inserted as Running with
\* progress 0 and the provisioning is spawned.
CreateBotTask(c, platform) ==
    /\ creating[c].pc = "idle"
    /\ \A k \in Creations : k < c => creating[k].pc # "idle"
    /\ creating' = [creating EXCEPT ![c] =
          [pc |-> IF platform = "discord" THEN "done" ELSE "spawned",
           id |-> new_bot_id(platform, c)]]
    /\ bots' = IF platform = "discord" THEN bots_insert(new_bot_id(platform, c), c) ELSE bots
    /\ tasks' = IF platform = "discord" THEN tasks
                ELSE tasks_insert(new_task_id(new_bot_id(platform, c)),
                                  [state |-> "Running", current |-> 0])
    /\ UNCHANGED <<nonBotTaskVars, unix_secs>>

\* The task id the spawned provisioning of creation c reports to: the
\* second of the bot id is the second of the task id.
task_id_bg(c) ==
    <<creating[c].id, creating[c].id[2]>>

\* The spawned provisioning starts: task_progress(1), ensure_docker_image.
TaskCheckImage(c) ==
    /\ creating[c].pc = "spawned"
    /\ tasks' = task_progress(task_id_bg(c), 1)
    /\ creating' = [creating EXCEPT ![c].pc = "image"]
    /\ UNCHANGED <<nonBotTaskVars, bots, unix_secs>>

\* ensure_docker_image returned: task_fail and return, or task_progress(2)
\* and provision_napcat_bot_container.
TaskImageDone(c, ok) ==
    /\ creating[c].pc = "image"
    /\ tasks' = IF ok THEN task_progress(task_id_bg(c), 2) ELSE task_fail(task_id_bg(c))
    /\ creating' = [creating EXCEPT ![c].pc = IF ok THEN "provisioning" ELSE "failed"]
    /\ UNCHANGED <<nonBotTaskVars, bots, unix_secs>>

\* provision_napcat_bot_container returned: task_fail and return, or
\* task_progress(3).
TaskProvisioned(c, ok) ==
    /\ creating[c].pc = "provisioning"
    /\ tasks' = IF ok THEN task_progress(task_id_bg(c), 3) ELSE task_fail(task_id_bg(c))
    /\ creating' = [creating EXCEPT ![c].pc = IF ok THEN "insert" ELSE "failed"]
    /\ UNCHANGED <<nonBotTaskVars, bots, unix_secs>>

\* state_bg.bots.insert(bot_id, bot) and save_bots.
TaskInsertBot(c) ==
    /\ creating[c].pc = "insert"
    /\ bots' = bots_insert(creating[c].id, c)
    /\ creating' = [creating EXCEPT ![c].pc = "inserted"]
    /\ UNCHANGED <<nonBotTaskVars, tasks, unix_secs>>

\* task_success, the last statement of the spawned provisioning.
TaskSucceed(c) ==
    /\ creating[c].pc = "inserted"
    /\ tasks' = task_success(task_id_bg(c))
    /\ creating' = [creating EXCEPT ![c].pc = "done"]
    /\ UNCHANGED <<nonBotTaskVars, bots, unix_secs>>

InitTaskVars ==
    tasks = <<>>

InitSupVars ==
    /\ exited = [b \in BotIds |-> FALSE]
    /\ frames = [w \in Workers |-> [recv |-> 0, handlers |-> 0]]
    /\ discord_inbound = {}

InitConnVars ==
    /\ is_connected = [b \in BotIds |-> FALSE]
    /\ connections = [b \in BotIds |-> NoConn]
    /\ worker = [w \in Workers |-> IdleWorker]
    /\ pending_requests = [e \in Echoes |-> 0]
    /\ call = [c \in Calls |-> IdleCall]
    /\ wall = 0
    /\ ignored = 0

(***************************************************************************)
(* Outbound layer: send_reply, MessageDedup::is_duplicate, send_api.       *)
(* Instants are kept as the ticks elapsed since them (all the code does    *)
(* with an Instant is now.duration_since(t)), saturating at MaxAge.        *)
(***************************************************************************)
Senders == 1..MaxSenders
MaxAge == (DEDUP_TTL_SECS + 1) * TicksPerSec
UserIds == {7}
GroupIds == {7}
RawMessages == {"kick 10001"}
Messages == {"kick 10001", "kick Alice"}
Hashes == RpcBots \X (UserIds \cup GroupIds) \X Messages

IdleReply == [pc |-> "idle", bot |-> "qq1", gid |-> 0,
              hash |-> <<"qq1", 7, "kick 10001">>, latest |-> FALSE]
NoCheck == [dup |-> FALSE, sent |-> FALSE, prev_secs |-> -2]

\* Duration::as_secs of a duration given in ticks.
AsSecs(d) == d \div TicksPerSec

\* One more tick on an elapsed time (-1: no Instant recorded).
Older(age) == IF age = -1 THEN -1 ELSE IF age < MaxAge THEN age + 1 ELSE MaxAge

\* sanitize_outgoing_text: a 5-12 digit token is replaced by the nickname when
\* the lookup (get_group_member_info / get_stranger_info) answers, and is left
\* in place when it does not.
sanitize_outgoing_text(raw) ==
    IF raw = "kick 10001" THEN {"kick 10001", "kick Alice"} ELSE {raw}

\* compute_message_hash feeds bot_id, target and message to the hasher, each
\* self-delimiting; the digest is modelled by that triple.
compute_message_hash(bot_id, target, message) == <<bot_id, target, message>>

\* The retain() of is_duplicate: keep the entries younger than ttl_secs.
Retain(cache) ==
    [h \in Hashes |->
        IF cache[h] # -1 /\ AsSecs(cache[h]) < DEDUP_TTL_SECS
        THEN cache[h] ELSE -1]

\* is_duplicate without the insert of line 81: nothing is ever recorded.
is_duplicate_no_insert(cache, hash) ==
    LET kept == Retain(cache)
    IN IF kept[hash] # -1 /\ AsSecs(kept[hash]) < DEDUP_TTL_SECS
       THEN [dup |-> TRUE, cache |-> kept]
       ELSE [dup |-> FALSE, cache |-> kept]

\* is_duplicate that also refreshes the recorded Instant on a duplicate hit.
is_duplicate_refresh(cache, hash) ==
    LET kept == Retain(cache)
    IN IF kept[hash] # -1 /\ AsSecs(kept[hash]) < DEDUP_TTL_SECS
       THEN [dup |-> TRUE, cache |-> [kept EXCEPT ![hash] = 0]]
       ELSE [dup |-> FALSE, cache |-> [kept EXCEPT ![hash] = 0]]

\* MessageDedup::is_duplicate: the verdict and the cache it leaves behind.
is_duplicate(cache, hash) ==
    LET kept == Retain(cache)
    IN IF kept[hash] # -1 /\ AsSecs(kept[hash]) < DEDUP_TTL_SECS
       THEN [dup |-> TRUE, cache |-> kept]
       ELSE [dup |-> FALSE, cache |-> [kept EXCEPT ![hash] = 0]]

\* send_reply up to the dedup check: sanitize, and for a group message ask
\* get_group_send_status (status is its answer) and return when muted.
SendReplyBegin(s, b, gid, raw, msg, status) ==
    /\ reply[s].pc = "idle"
    /\ msg \in sanitize_outgoing_text(raw)
    /\ gid = 0 => status = "Allowed"
    /\ ~(gid # 0 /\ status = "Muted")
    /\ reply' = [reply EXCEPT ![s] =
          [pc |-> "dedup", bot |-> b, gid |-> gid,
           hash |-> compute_message_hash(b, IF gid # 0 THEN gid ELSE 7, msg),
           latest |-> FALSE]]
    /\ UNCHANGED <<dedup_cache, passed_age, transport_age, last_check>>
    /\ UNCHANGED <<connVars, storeVars, discVars, extVars>>

\* runtime.message_dedup.lock().await.is_duplicate(hash), and the return of
\* send_reply when the verdict is "duplicate".
SendReplyDedup(s) ==
    /\ reply[s].pc = "dedup"
    /\ LET h == reply[s].hash
           r == is_duplicate(dedup_cache, h)
       IN /\ dedup_cache' = r.cache
          /\ last_check' = [dup |-> r.dup, sent |-> FALSE,
                            prev_secs |-> IF passed_age[h] = -1 THEN -1
                                          ELSE AsSecs(passed_age[h])]
          /\ reply' = [t \in Senders |->
                IF t = s
                THEN IF r.dup THEN IdleReply
                     ELSE [reply[s] EXCEPT !.pc = "send_api", !.latest = TRUE]
                ELSE [reply[t] EXCEPT !.latest = FALSE]]
          /\ passed_age' = IF r.dup THEN passed_age
                           ELSE [passed_age EXCEPT ![h] = 0]
          /\ UNCHANGED transport_age
    /\ UNCHANGED <<connVars, storeVars, discVars, extVars>>

\* send_api: second status check for a group, registry lookup, tx.send.
SendApi(s, status) ==
    /\ reply[s].pc = "send_api"
    /\ reply[s].gid = 0 => status = "Allowed"
    /\ reply' = [reply EXCEPT ![s] = IdleReply]
    /\ LET conn == connections[reply[s].bot]
           reaches == /\ ~(reply[s].gid # 0 /\ status = "Muted")
                      /\ conn.kind = "OneBot"
                      /\ worker[conn.sender].chan
       IN last_check' = IF reaches /\ reply[s].latest
                        THEN [last_check EXCEPT !.sent = TRUE]
                        ELSE last_check
    /\ UNCHANGED <<dedup_cache, passed_age, transport_age>>
    /\ UNCHANGED <<connVars, storeVars, discVars, extVars>>

\* send_api as above, with the history of what reached the transport kept:
\* transport_age of the hash starts anew when tx.send took the message.
SendApiTraced(s, status) ==
    /\ reply[s].pc = "send_api"
    /\ reply[s].gid = 0 => status = "Allowed"
    /\ reply' = [reply EXCEPT ![s] = IdleReply]
    /\ LET conn == connections[reply[s].bot]
           reaches == /\ ~(reply[s].gid # 0 /\ status = "Muted")
                      /\ conn.kind = "OneBot"
                      /\ worker[conn.sender].chan
       IN /\ last_check' = IF reaches /\ reply[s].latest
                           THEN [last_check EXCEPT !.sent = TRUE]
                           ELSE last_check
          /\ transport_age' = IF reaches
                              THEN [transport_age EXCEPT ![reply[s].hash] = 0]
                              ELSE transport_age
    /\ UNCHANGED <<dedup_cache, passed_age>>
    /\ UNCHANGED <<connVars, storeVars, discVars, extVars>>

\* One tick of the monotonic clock passes.
ClockTick ==
    /\ \E h \in Hashes : passed_age[h] \notin {-1, MaxAge}
    /\ dedup_cache' = [h \in Hashes |-> Older(dedup_cache[h])]
    /\ passed_age' = [h \in Hashes |-> Older(passed_age[h])]
    /\ transport_age' = [h \in Hashes |-> Older(transport_age[h])]
    /\ UNCHANGED <<reply, last_check>>
    /\ UNCHANGED <<connVars, storeVars, discVars, extVars>>

InitDedupVars ==
    /\ dedup_cache = [h \in Hashes |-> -1]
    /\ reply = [s \in Senders |-> IdleReply]
    /\ passed_age = [h \in Hashes |-> -1]
    /\ transport_age = [h \in Hashes |-> -1]
    /\ last_check = NoCheck

(***************************************************************************)
(* Discord: start_discord_connections, start_discord_bot and               *)
(* discord_connect_and_run.  Option values are kept as None / 0.           *)
(***************************************************************************)

DWorkers == 1..MaxDWorkers
FirstTask == {1}
Seqs == 1..MaxSeq
None == "None"
SessionIds == {"sA"}
NoResume == [session_id |-> None, seq |-> 0]
NoSent == [op |-> 0, session_id |-> None, seq |-> 0]
Identify == [op |-> 2, session_id |-> None, seq |-> 0]
Resume(sid, n) == [op |-> 6, session_id |-> sid, seq |-> n]

\* A reconnect task that is not running.  backoff and resume are the locals
\* of the spawned loop; seq, session_id and resume_url those of
\* discord_connect_and_run; sent is the frame written in answer to HELLO;
\* ready tells whether READY arrived on the current connection.
\* invalidated and dropped are history: the session an op 9 with
\* can_resume = true left behind, and whether the last connection was an
\* established session that was lost.
IdleDWorker ==
    [pc |-> "idle", bot |-> None, backoff |-> BACKOFF_START_SECS, resume |-> NoResume,
     seq |-> 0, session_id |-> None, resume_url |-> FALSE, sent |-> NoSent,
     ready |-> FALSE, invalidated |-> NoResume, dropped |-> FALSE]

\* The tasks that currently hold an open gateway socket for bot b.
DiscordSessions(b) ==
    {w \in DWorkers : dworker[w].bot = b /\ dworker[w].pc \in {"hello", "session"}}

\* connection.rs unregister_connection, on the registry alone.
unregister_connection(conns, b) == [conns EXCEPT ![b] = NoConn]

\* shutdown_discord_connection: signal the registered task, drop the entry.
shutdown_signalled(b) ==
    IF connections[b].kind = "Discord"
    THEN [shutdown EXCEPT ![connections[b].sender] = TRUE]
    ELSE shutdown

\* start_discord_connections, to_start: a running Discord bot with a token
\* and without a Discord registry entry is started in a free task, which
\* begins with its first dial (shutdown is false, there is no resume state).
DiscordStart(b, w) ==
    /\ bots_guard = 0
    /\ is_running[b] /\ has_token[b]
    /\ connections[b].kind # "Discord"
    /\ dworker[w].pc = "idle"
    /\ connections' = [connections EXCEPT ![b] = Discord(w)]
    /\ shutdown' = [shutdown EXCEPT ![w] = FALSE]
    /\ is_running' = [is_running EXCEPT ![b] = TRUE]
    /\ bots_file' = save_bots(is_connected, is_running')
    /\ dworker' = [dworker EXCEPT ![w] = [IdleDWorker EXCEPT !.pc = "dial", !.bot = b]]
    /\ UNCHANGED <<is_connected, worker, pending_requests, call, wall, ignored>>
    /\ UNCHANGED <<extVars, dedupVars, has_token, bots_guard, need_restart>>

\* start_discord_connections when start_discord_bot returns an error.
DiscordStartFailed(b) ==
    /\ bots_guard = 0
    /\ is_running[b] /\ has_token[b]
    /\ connections[b].kind # "Discord"
    /\ is_connected' = [is_connected EXCEPT ![b] = FALSE]
    /\ is_running' = [is_running EXCEPT ![b] = FALSE]
    /\ bots_file' = save_bots(is_connected', is_running')
    /\ UNCHANGED <<connections, worker, pending_requests, call, wall, ignored>>
    /\ UNCHANGED <<extVars, dedupVars, discVars, has_token, bots_guard, need_restart>>

\* start_discord_connections, to_stop -> stop_discord_bot.
DiscordStop(b) ==
    /\ bots_guard = 0
    /\ ~is_running[b]
    /\ connections[b].kind = "Discord"
    /\ shutdown' = shutdown_signalled(b)
    /\ connections' = unregister_connection(connections, b)
    /\ is_connected' = [is_connected EXCEPT ![b] = FALSE]
    /\ is_running' = [is_running EXCEPT ![b] = FALSE]
    /\ bots_file' = save_bots(is_connected', is_running')
    /\ UNCHANGED <<worker, pending_requests, call, wall, ignored>>
    /\ UNCHANGED <<extVars, dedupVars, dworker, has_token, bots_guard, need_restart>>

\* update_discord_bot_handler with payload.token (given or not) and
\* payload.is_running ("None", "true" or "false"), up to save_bots.
UpdateDiscordBot(b, token, running) ==
    LET changed == running # None /\ is_running[b] # (running = "true")
    IN  /\ bots_guard = 0
        /\ has_token' = [has_token EXCEPT ![b] = @ \/ token]
        /\ is_running' = [is_running EXCEPT ![b] = IF changed THEN running = "true" ELSE @]
        /\ bots_file' = save_bots(is_connected, is_running')
        /\ need_restart' = [need_restart EXCEPT ![b] = @ \/ token \/ changed]
        /\ UNCHANGED <<extVars, connVars, dedupVars, discVars, bots_guard>>

\* update_discord_bot_handler, need_restart: shutdown_discord_connection.
UpdateDiscordRestart(b) ==
    /\ need_restart[b]
    /\ need_restart' = [need_restart EXCEPT ![b] = FALSE]
    /\ shutdown' = shutdown_signalled(b)
    /\ connections' = unregister_connection(connections, b)
    /\ UNCHANGED <<is_connected, worker, pending_requests, call, wall, ignored>>
    /\ UNCHANGED <<extVars, dedupVars, dworker, is_running, has_token, bots_guard, bots_file>>

\* The state of the spawned loop after discord_connect_and_run returned
\* exit ("Shutdown", "Reconnect" with resume state r, or "Err"): the match on
\* the result and the shutdown check that follows it.
after_run(w, exit, r) ==
    LET d == dworker[w]
        stop == exit = "Shutdown" \/ shutdown[w]
        back == [d EXCEPT !.seq = 0, !.session_id = None, !.resume_url = FALSE,
                          !.sent = NoSent, !.ready = FALSE,
                          !.resume = IF exit = "Reconnect" THEN r ELSE @,
                          !.invalidated = IF d.pc = "session" THEN NoResume ELSE @]
    IN  IF stop
        THEN [IdleDWorker EXCEPT !.pc = "cleanup", !.bot = d.bot]
        ELSE [back EXCEPT !.pc = "mark", !.dropped = d.ready]

\* The last sequence number a task has received on its session: the one of
\* this connection, or the one the previous connection left in the resume
\* state when this connection has not received any yet.
last_seq(d) == IF d.seq # 0 THEN d.seq ELSE d.resume.seq

\* The resume state computed after the session loop was left with break.
resume_state(session_id, resume_url, seq) ==
    IF session_id # None /\ resume_url /\ seq # 0
    THEN [session_id |-> session_id, seq |-> seq]
    ELSE NoResume

\* One turn of the spawned loop begins: leave on shutdown, else dial the
\* gateway with the locals of discord_connect_and_run initialised from the
\* resume state.
loop_top(w, d) ==
    IF shutdown[w]
    THEN [IdleDWorker EXCEPT !.pc = "cleanup", !.bot = d.bot]
    ELSE [d EXCEPT !.pc = "dial", !.seq = 0, !.dropped = FALSE,
                   !.session_id = d.resume.session_id,
                   !.resume_url = d.resume.session_id # None]

\* connect_async succeeded: the task waits for HELLO.
DiscordDialed(w) ==
    /\ dworker[w].pc = "dial"
    /\ dworker' = [dworker EXCEPT ![w].pc = "hello"]
    /\ UNCHANGED <<extVars, connVars, dedupVars, storeVars, shutdown>>

\* connect_async failed, or the gateway closed before HELLO.
DiscordConnectErr(w) ==
    /\ dworker[w].pc \in {"dial", "hello"}
    /\ dworker' = [dworker EXCEPT ![w] = after_run(w, "Err", NoResume)]
    /\ UNCHANGED <<extVars, connVars, dedupVars, storeVars, shutdown>>

\* HELLO (op 10) arrived: RESUME when a session id and a resume state are
\* there, IDENTIFY otherwise.
DiscordHello(w) ==
    LET d == dworker[w]
    IN  /\ d.pc = "hello"
        /\ dworker' = [dworker EXCEPT ![w] =
              [d EXCEPT !.pc = "session",
                        !.sent = IF d.session_id # None /\ d.resume # NoResume
                                 THEN Resume(d.session_id, d.resume.seq)
                                 ELSE Identify]]
        /\ UNCHANGED <<extVars, connVars, dedupVars, storeVars, shutdown>>

\* Dispatch READY with sequence number s and session id sid.
DiscordReady(w, s, sid) ==
    LET d == dworker[w]
    IN  /\ d.pc = "session" /\ d.sent.op = 2 /\ ~d.ready
        /\ bots_guard = 0
        /\ dworker' = [dworker EXCEPT ![w] =
              [d EXCEPT !.seq = s, !.session_id = sid,
                        !.resume_url = TRUE, !.ready = TRUE]]
        /\ is_connected' = [is_connected EXCEPT ![d.bot] = TRUE]
        /\ bots_file' = save_bots(is_connected', is_running)
        /\ UNCHANGED <<connections, worker, pending_requests, call, wall, ignored>>
        /\ UNCHANGED <<extVars, dedupVars, shutdown, is_running, has_token, bots_guard, need_restart>>

\* Any other dispatch (MESSAGE_CREATE, RESUMED, ...) with sequence number s.
DiscordDispatch(w, s) ==
    LET d == dworker[w]
    IN  /\ d.pc = "session" /\ (d.ready \/ d.sent.op = 6)
        /\ dworker' = [dworker EXCEPT ![w] = [d EXCEPT !.seq = s]]
        /\ UNCHANGED <<extVars, connVars, dedupVars, storeVars, shutdown>>

\* Dispatch MESSAGE_CREATE with sequence number s on an identified or
\* resumed connection: unless the author is a bot, the message is indexed
\* and handle_event is spawned for it.
DiscordMessageCreate(w, s, author_bot) ==
    LET d == dworker[w]
    IN  /\ d.pc = "session"
        /\ dworker' = [dworker EXCEPT ![w] = [d EXCEPT !.seq = s]]
        /\ discord_inbound' = discord_inbound \cup
              {[ready |-> d.ready, indexed |-> ~author_bot, emitted |-> ~author_bot]}
        /\ UNCHANGED <<connVars, dedupVars, storeVars, shutdown>>
        /\ UNCHANGED <<plugVars, cfgVars, llmVars, statusVars, auxVars, exited, frames>>

\* Op 7 (RECONNECT): break, close, return Reconnect or Shutdown.
DiscordReconnect(w) ==
    LET d == dworker[w]
    IN  /\ d.pc = "session"
        /\ dworker' = [dworker EXCEPT ![w] =
              after_run(w, IF shutdown[w] THEN "Shutdown" ELSE "Reconnect",
                        resume_state(d.session_id, d.resume_url, d.seq))]
        /\ UNCHANGED <<extVars, connVars, dedupVars, storeVars, shutdown>>

\* Op 9 (INVALID_SESSION) with d = can_resume.
DiscordInvalidSession(w, can_resume) ==
    LET d == dworker[w]
        sid == IF can_resume THEN d.session_id ELSE None
        url == can_resume /\ d.resume_url
        next == after_run(w, IF shutdown[w] THEN "Shutdown" ELSE "Reconnect",
                          resume_state(sid, url, d.seq))
    IN  /\ d.pc = "session"
        /\ dworker' = [dworker EXCEPT ![w] =
              IF can_resume /\ d.session_id # None /\ next.pc = "mark"
              THEN [next EXCEPT !.invalidated =
                        [session_id |-> d.session_id, seq |-> last_seq(d)]]
              ELSE next]
        /\ UNCHANGED <<extVars, connVars, dedupVars, storeVars, shutdown>>

\* The socket was closed or failed, or a heartbeat could not be written.
DiscordSessionErr(w) ==
    /\ dworker[w].pc = "session"
    /\ dworker' = [dworker EXCEPT ![w] = after_run(w, "Err", NoResume)]
    /\ UNCHANGED <<extVars, connVars, dedupVars, storeVars, shutdown>>

\* The shutdown watch fired with value true while waiting for frames.
DiscordShutdown(w) ==
    /\ dworker[w].pc \in {"hello", "session"}
    /\ shutdown[w]
    /\ dworker' = [dworker EXCEPT ![w] = after_run(w, "Shutdown", NoResume)]
    /\ UNCHANGED <<extVars, connVars, dedupVars, storeVars, shutdown>>

\* Mark disconnected: get_mut on the bot, and when is_connected was true,
\* clear it and call save_bots while the guard of get_mut is still held.
\* save_bots walks the whole store (bots.iter()), so it waits for the guard
\* this very task holds: the task stays in "save_bots" with the guard.
DiscordMarkDisconnected(w) ==
    LET d == dworker[w]
    IN  /\ d.pc = "mark"
        /\ bots_guard = 0
        /\ IF is_connected[d.bot]
           THEN /\ is_connected' = [is_connected EXCEPT ![d.bot] = FALSE]
                /\ bots_guard' = w
                /\ dworker' = [dworker EXCEPT ![w].pc = "save_bots"]
           ELSE /\ dworker' = [dworker EXCEPT ![w].pc = "sleep"]
                /\ UNCHANGED <<is_connected, bots_guard>>
        /\ UNCHANGED <<connections, worker, pending_requests, call, wall, ignored>>
        /\ UNCHANGED <<extVars, dedupVars, shutdown, is_running, has_token, bots_file, need_restart>>

\* select { sleep(backoff), shutdown_rx.changed() } is over; double the
\* backoff up to the cap and begin the next turn of the loop.
DiscordBackoffDone(w) ==
    LET d == dworker[w]
        doubled == d.backoff * 2
    IN  /\ d.pc = "sleep"
        /\ dworker' = [dworker EXCEPT ![w] =
              loop_top(w, [d EXCEPT !.backoff = IF doubled < BACKOFF_CAP_SECS THEN doubled
                                                ELSE BACKOFF_CAP_SECS])]
        /\ UNCHANGED <<extVars, connVars, dedupVars, storeVars, shutdown>>

\* Final cleanup, first half: unregister whatever entry the bot has.
DiscordCleanupUnregister(w) ==
    LET d == dworker[w]
    IN  /\ d.pc = "cleanup"
        /\ connections' = unregister_connection(connections, d.bot)
        /\ dworker' = [dworker EXCEPT ![w].pc = "cleanup_mark"]
        /\ UNCHANGED <<is_connected, worker, pending_requests, call, wall, ignored>>
        /\ UNCHANGED <<extVars, dedupVars, storeVars, shutdown>>

\* Final cleanup, second half: is_connected = false, save_bots, task over.
DiscordCleanupMark(w) ==
    LET d == dworker[w]
    IN  /\ d.pc = "cleanup_mark"
        /\ bots_guard = 0
        /\ is_connected' = [is_connected EXCEPT ![d.bot] = FALSE]
        /\ bots_file' = save_bots(is_connected', is_running)
        /\ dworker' = [dworker EXCEPT ![w] = IdleDWorker]
        /\ UNCHANGED <<connections, worker, pending_requests, call, wall, ignored>>
        /\ UNCHANGED <<extVars, dedupVars, shutdown, is_running, has_token, bots_guard, need_restart>>

InitStoreVars ==
    /\ is_running = [b \in DiscordIds |-> FALSE]
    /\ has_token = [b \in DiscordIds |-> FALSE]
    /\ bots_guard = 0
    /\ bots_file = save_bots(is_connected, is_running)
    /\ need_restart = [b \in DiscordIds |-> FALSE]

InitDiscVars ==
    /\ dworker = [w \in DWorkers |-> IdleDWorker]
    /\ shutdown = [w \in DWorkers |-> FALSE]

(***************************************************************************)
(* PluginManager and plugin_worker.  A plugin id is kept as the sequence   *)
(* of its bytes, so that ids compare as Rust strings do.                   *)
(***************************************************************************)

\* The id "whitelist" and the other plugin ids of the model, in the order in
\* which the bound admits them.
Whitelist == <<2>>
IdList == <<Whitelist, <<1>>, <<1, 2>>, <<2, 1>>, <<1, 1>>>>
PluginIds == {IdList[i] : i \in 1..MaxPlugins}

BroadcastHooks == {"preCommand", "preMessage", "onNotice", "onMetaEvent"}
PluginOutputs == {<<>>, <<"SendReply">>}

\* What the call of a hook in a plugin's runtime can come to: Ok, Err, or no
\* answer because the request or the reply channel failed.
Replies == {"ok", "raise", "lost"}

\* str::cmp: a is less than b.
RECURSIVE str_less(_, _)
str_less(a, b) ==
    IF a = <<>> THEN b # <<>>
    ELSE IF b = <<>> THEN FALSE
    ELSE IF Head(a) # Head(b) THEN Head(a) < Head(b)
    ELSE str_less(Tail(a), Tail(b))

\* Mutation: every plugin has priority 0.
plugin_priority_flat(plugin_id) ==
    0

plugin_priority(plugin_id) ==
    IF plugin_id = Whitelist THEN WHITELIST_PRIORITY ELSE 0

\* The comparator of ordered_plugin_ids: pa.cmp(&pb).then_with(|| a.cmp(b)).
sort_less(a, b) ==
    \/ plugin_priority(a) < plugin_priority(b)
    \/ plugin_priority(a) = plugin_priority(b) /\ str_less(a, b)

\* sort_by over a vector, by insertion.
RECURSIVE sort_insert(_, _)
sort_insert(s, x) ==
    IF s = <<>> THEN <<x>>
    ELSE IF sort_less(x, Head(s)) THEN <<x>> \o s
    ELSE <<Head(s)>> \o sort_insert(Tail(s), x)

RECURSIVE sort_by(_)
sort_by(s) ==
    IF s = <<>> THEN <<>> ELSE sort_insert(sort_by(Tail(s)), Head(s))

\* The orders in which iterating a DashMap with the keys S can yield them.
IterOrders(S) ==
    {f \in [1..Cardinality(S) -> S] : \A i, j \in 1..Cardinality(S) : i # j => f[i] # f[j]}

\* ordered_plugin_ids, when the iteration of loaded_plugins yields keys.
ordered_plugin_ids(keys) == sort_by(keys)

\* The outputs of plugin p, tagged with their source.
with_source(p, outs) == [i \in 1..Len(outs) |-> <<p, outs[i]>>]

NoHook ==
    [pc |-> "idle", kind |-> None, snapshot |-> {}, plugin_ids |-> <<>>,
     all_outputs |-> <<>>, allow |-> TRUE, trace |-> <<>>]

\* Mutation: a failing preCommand / preMessage lets the event pass.
plugin_worker_open(kind, p, answer, allow, outs) ==
    IF p \in runtimes /\ answer = "ok"
    THEN [allow |-> allow, outputs |-> with_source(p, outs)]
    ELSE [allow |-> TRUE, outputs |-> <<>>]

\* plugin_worker on a hook request for plugin p: the HookResult it answers
\* when the runtime returns Ok((allow, outs)), returns Err, or is absent.
plugin_worker(kind, p, answer, allow, outs) ==
    IF p \in runtimes /\ answer = "ok"
    THEN [allow |-> allow, outputs |-> with_source(p, outs)]
    ELSE [allow |-> kind \notin {"preCommand", "preMessage"}, outputs |-> <<>>]

\* Mutation: the iteration goes on after allow = false.
broadcast_step_no_halt(h, entry, result) ==
    [h EXCEPT !.plugin_ids = Tail(@), !.trace = Append(@, entry),
              !.all_outputs = @ \o result.outputs]

\* One turn of the for loop of a broadcast hook after the plugin answered:
\* extend all_outputs, return allow = false when the result says so.
broadcast_step(h, entry, result) ==
    LET next == [h EXCEPT !.plugin_ids = Tail(@), !.trace = Append(@, entry),
                          !.all_outputs = @ \o result.outputs]
    IN  IF result.allow THEN next ELSE [next EXCEPT !.pc = "done", !.allow = FALSE]

\* One turn of the for loop when the request could not be sent or the answer
\* was dropped: preCommand / preMessage return allow = false, onNotice /
\* onMetaEvent go on with the next plugin.
broadcast_lost(h, entry) ==
    LET next == [h EXCEPT !.plugin_ids = Tail(@), !.trace = Append(@, entry)]
    IN  IF h.kind \in {"preCommand", "preMessage"}
        THEN [next EXCEPT !.pc = "done", !.allow = FALSE]
        ELSE next

\* plugin_worker, Load: on success the runtime is inserted and the id is
\* entered in loaded_plugins; on failure nothing changes.
PluginLoad(p, ok) ==
    /\ runtimes' = IF ok THEN runtimes \cup {p} ELSE runtimes
    /\ loaded_plugins' = IF ok THEN loaded_plugins \cup {p} ELSE loaded_plugins
    /\ runtime_config' = IF ok THEN [runtime_config EXCEPT ![p] = persisted_config[p]]
                               ELSE runtime_config
    /\ UNCHANGED <<nonPlugVars, hook, persisted_config, upd>>

\* plugin_worker, Unload of a loaded plugin.
PluginUnload(p) ==
    /\ p \in runtimes
    /\ runtimes' = runtimes \ {p}
    /\ loaded_plugins' = loaded_plugins \ {p}
    /\ runtime_config' = [runtime_config EXCEPT ![p] = None]
    /\ UNCHANGED <<nonPlugVars, hook, persisted_config, upd>>

\* pre_command / pre_message / on_notice / on_meta_event begin: the ids are
\* collected from loaded_plugins in the order keys and sorted.
HookBegin(kind, keys) ==
    /\ hook.pc = "idle"
    /\ hook' = [NoHook EXCEPT !.pc = "running", !.kind = kind,
                              !.snapshot = loaded_plugins,
                              !.plugin_ids = ordered_plugin_ids(keys)]
    /\ UNCHANGED <<nonPlugVars, loaded_plugins, runtimes, cfgVars>>

\* The next plugin of the order is asked and its answer is taken in.  answer,
\* allow and outs are what the call in the plugin's runtime comes to; outs
\* of a call that raises are the outputs it had produced until then.
HookInvoke(answer, allow, outs) ==
    LET p == Head(hook.plugin_ids)
        entry == [id |-> p, allow |-> allow, outs |-> outs,
                  reply |-> IF answer # "lost" /\ p \notin runtimes THEN "absent"
                            ELSE answer]
    IN  /\ hook.pc = "running"
        /\ hook.plugin_ids # <<>>
        /\ answer # "ok" => allow
        /\ (answer = "lost" \/ p \notin runtimes) => (outs = <<>> /\ allow)
        /\ hook' = IF answer = "lost"
                   THEN broadcast_lost(hook, entry)
                   ELSE broadcast_step(hook, entry,
                                       plugin_worker(hook.kind, p, answer, allow, outs))
        /\ UNCHANGED <<nonPlugVars, loaded_plugins, runtimes, cfgVars>>

\* Every plugin of the order allowed the event: HookResult { allow: true }.
HookReturn ==
    /\ hook.pc = "running"
    /\ hook.plugin_ids = <<>>
    /\ hook' = [hook EXCEPT !.pc = "done", !.allow = TRUE]
    /\ UNCHANGED <<nonPlugVars, loaded_plugins, runtimes, cfgVars>>

\* The caller has taken the HookResult.
HookConsume ==
    /\ hook.pc = "done"
    /\ hook' = NoHook
    /\ UNCHANGED <<nonPlugVars, loaded_plugins, runtimes, cfgVars>>

(* update_plugin_config_handler.  Every installed plugin has a manifest     *)
(* config in the registry; a handler call h holds the plugin id, the new   *)
(* config, the manifest config read at entry (current) and is_loaded at    *)
(* entry (loaded).                                                         *)
Handlers == 1..MaxHandlers
Configs == {"c0", "c1", "c2"}
Targets == {Whitelist}
NoUpdate == [pc |-> "idle", plugin |-> <<>>, config |-> None, current |-> None,
             loaded |-> FALSE, result |-> None]

\* PluginRuntime::update_config as plugin_worker calls it: on Ok the runtime
\* of p holds config, on Err it holds what it held.
runtime_update_config(cfgs, p, config, ok) ==
    IF ok THEN [cfgs EXCEPT ![p] = config] ELSE cfgs

\* PluginRegistry::update_config: on Ok the manifest config of p is config
\* on disk and in the registry, on Err it is what it was.
registry_update_config(cfgs, p, config, ok) ==
    IF ok THEN [cfgs EXCEPT ![p] = config] ELSE cfgs

\* Entry of the handler: state.plugins.get and is_loaded.
UpdateBegin(h, p, config) ==
    /\ upd[h].pc = "idle"
    /\ upd' = [upd EXCEPT ![h] =
                  [pc |-> IF p \in loaded_plugins THEN "runtime" ELSE "persist",
                   plugin |-> p, config |-> config, current |-> persisted_config[p],
                   loaded |-> p \in loaded_plugins, result |-> None]]
    /\ UNCHANGED <<nonPlugVars, plugVars, runtime_config, persisted_config>>

\* plugin_manager.update_config(id, config) is served by plugin_worker; an
\* Err (runtime absent, or the runtime's update failed) ends the handler.
UpdateRuntime(h, ok) ==
    LET u == upd[h]
        done == u.plugin \in runtimes /\ ok
    IN  /\ u.pc = "runtime"
        /\ runtime_config' = IF u.plugin \in runtimes
                             THEN runtime_update_config(runtime_config, u.plugin, u.config, ok)
                             ELSE runtime_config
        /\ upd' = [upd EXCEPT ![h] =
                      IF done THEN [u EXCEPT !.pc = "persist"]
                      ELSE [u EXCEPT !.pc = "idle", !.result = "error"]]
        /\ UNCHANGED <<nonPlugVars, plugVars, persisted_config>>

\* state.plugins.update_config(id, config): success ends the handler, failure
\* goes to the rollback when the plugin was loaded at entry.
UpdatePersist(h, ok) ==
    LET u == upd[h]
    IN  /\ u.pc = "persist"
        /\ persisted_config' = registry_update_config(persisted_config, u.plugin, u.config, ok)
        /\ upd' = [upd EXCEPT ![h] =
                      IF ok THEN [u EXCEPT !.pc = "idle", !.result = "success"]
                      ELSE IF u.loaded THEN [u EXCEPT !.pc = "rollback"]
                      ELSE [u EXCEPT !.pc = "idle", !.result = "error"]]
        /\ UNCHANGED <<nonPlugVars, plugVars, runtime_config>>

\* plugin_manager.update_config(id, current.manifest.config); a failure is
\* only logged.  The handler returns the persist error.
UpdateRollback(h, ok) ==
    LET u == upd[h]
    IN  /\ u.pc = "rollback"
        /\ runtime_config' = IF u.plugin \in runtimes
                             THEN runtime_update_config(runtime_config, u.plugin, u.current, ok)
                             ELSE runtime_config
        /\ upd' = [upd EXCEPT ![h] = [u EXCEPT !.pc = "idle", !.result = "error"]]
        /\ UNCHANGED <<nonPlugVars, plugVars, persisted_config>>

InitCfgVars ==
    /\ runtime_config = [p \in PluginIds |-> None]
    /\ persisted_config = [p \in PluginIds |-> "c0"]
    /\ upd = [h \in Handlers |-> NoUpdate]

(* llm_abuse: try_begin_llm_task and the drop of LlmTaskGuard, with          *)
(* limits.enabled = true.  Each access to an atomic counter or to a map     *)
(* entry is one step.  A call keeps the cfg.max_concurrent_per_user it was *)
(* given, the message of its LlmAbuseBlock and, when it was accepted, the  *)
(* Instant it stored as the user's last start; the other limits are the    *)
(* defaults.  The calls are numbered in the order in which they are made.  *)
Subs == 1..MaxSubs
Users == {1, 2}
Groups == {0, 1}
LlmTimes == {k * LlmTickSecs : k \in 0..MaxLlmTicks}
\* The cfg.max_concurrent_per_user of the bot that user u talks to: the
\* default for user 1, one more for user 2.
UserLimit(u) == MAX_CONCURRENT_PER_USER + (u - 1)
NoTask == [pc |-> "idle", user_id |-> 0, group_id |-> 0, max_concurrent_per_user |-> 0,
           now |-> 0, message |-> None]

\* What is kept of a call that has returned Err, and of a guard that is dropped.
rejected(c) ==
    [NoTask EXCEPT !.pc = "rejected", !.user_id = c.user_id, !.message = c.message]
finished(c) ==
    [NoTask EXCEPT !.pc = "finished", !.user_id = c.user_id, !.now = c.now]

\* Mutation: the global cap is not looked at.
try_inc_global_any(cur, max) ==
    TRUE

\* try_inc_global / the compare-exchange loop: TRUE when the counter, being
\* cur, is incremented.
try_inc_global(cur, max) ==
    ~(cur >= max)

\* Mutation: the per-key cap is not looked at.
try_inc_inflight_any(map, key, max) ==
    TRUE

try_inc_inflight(map, key, max) ==
    ~(map[key] >= max)

\* Mutation: the decrement is lost.
fetch_sub_lost(cur) ==
    cur

\* AtomicUsize::fetch_sub(1): the new value of the counter.
fetch_sub(cur) ==
    cur - 1

\* Mutation: the counter is decremented twice.
dec_inflight_twice(map, key) ==
    [map EXCEPT ![key] = fetch_sub(fetch_sub(@))]

dec_inflight(map, key) ==
    [map EXCEPT ![key] = fetch_sub(@)]

\* Mutation: the interval is not enforced.
interval_block_never(last, now, min) ==
    FALSE

\* elapsed = now.saturating_duration_since(last); elapsed < min_interval.
interval_block(last, now, min) ==
    (IF now >= last THEN now - last ELSE 0) < min

\* Entry of try_begin_llm_task: try_inc_global.
LlmSubmit(t, u, g) ==
    /\ llm_task[t].pc = "idle"
    /\ \A t0 \in Subs : t0 < t => llm_task[t0].pc # "idle"
    /\ LET ok == try_inc_global(GLOBAL_INFLIGHT, MAX_CONCURRENT_GLOBAL)
           made == [NoTask EXCEPT !.user_id = u, !.group_id = g,
                                 !.max_concurrent_per_user = UserLimit(u)]
       IN  /\ GLOBAL_INFLIGHT' = IF ok THEN GLOBAL_INFLIGHT + 1 ELSE GLOBAL_INFLIGHT
           /\ llm_task' = [llm_task EXCEPT ![t] =
                              IF ok THEN [made EXCEPT !.pc = "user"]
                              ELSE rejected([made EXCEPT !.message = "too_many"])]
    /\ UNCHANGED <<nonLlmVars, USER_INFLIGHT, GROUP_INFLIGHT, USER_LAST_START,
                   llm_now>>

\* try_inc_inflight(&USER_INFLIGHT, user_id, max_concurrent_per_user).
LlmUser(t) ==
    LET c == llm_task[t]
        ok == try_inc_inflight(USER_INFLIGHT, c.user_id, c.max_concurrent_per_user)
    IN  /\ c.pc = "user"
        /\ USER_INFLIGHT' = IF ok THEN [USER_INFLIGHT EXCEPT ![c.user_id] = @ + 1]
                            ELSE USER_INFLIGHT
        /\ llm_task' = [llm_task EXCEPT ![t] =
                           IF ok THEN [c EXCEPT !.pc = IF c.group_id # 0 THEN "group" ELSE "now"]
                           ELSE [c EXCEPT !.pc = "undo_global", !.message = "in_progress"]]
        /\ UNCHANGED <<nonLlmVars, GLOBAL_INFLIGHT, GROUP_INFLIGHT, USER_LAST_START,
                       llm_now>>

\* try_inc_inflight(&GROUP_INFLIGHT, group_id, max_concurrent_per_group).
LlmGroup(t) ==
    LET c == llm_task[t]
        ok == try_inc_inflight(GROUP_INFLIGHT, c.group_id, MAX_CONCURRENT_PER_GROUP)
    IN  /\ c.pc = "group"
        /\ GROUP_INFLIGHT' = IF ok THEN [GROUP_INFLIGHT EXCEPT ![c.group_id] = @ + 1]
                             ELSE GROUP_INFLIGHT
        /\ llm_task' = [llm_task EXCEPT ![t] =
                           IF ok THEN [c EXCEPT !.pc = "now"]
                           ELSE [c EXCEPT !.pc = "undo_user", !.message = "group_busy"]]
        /\ UNCHANGED <<nonLlmVars, GLOBAL_INFLIGHT, USER_INFLIGHT, USER_LAST_START,
                       llm_now>>

\* let now = Instant::now(), dt seconds after the clock was last read.
LlmNow(t, dt) ==
    /\ llm_task[t].pc = "now"
    /\ llm_now + dt \in LlmTimes
    /\ llm_now' = llm_now + dt
    /\ llm_task' = [llm_task EXCEPT ![t] = [@ EXCEPT !.pc = "entry", !.now = llm_now + dt]]
    /\ UNCHANGED <<nonLlmVars, GLOBAL_INFLIGHT, USER_INFLIGHT, GROUP_INFLIGHT,
                   USER_LAST_START>>

\* USER_LAST_START.entry(user_id): block when the last start is too recent,
\* else store now and return the active guard.
LlmEntry(t) ==
    LET c == llm_task[t]
        last == USER_LAST_START[c.user_id]
        block == last # <<>> /\ interval_block(last[1], c.now, MIN_INTERVAL_SECS)
    IN  /\ c.pc = "entry"
        /\ USER_LAST_START' = IF block THEN USER_LAST_START
                              ELSE [USER_LAST_START EXCEPT ![c.user_id] = <<c.now>>]
        /\ llm_task' = [llm_task EXCEPT ![t] =
                           IF block
                           THEN [c EXCEPT !.pc = IF c.group_id # 0 THEN "undo_group"
                                                 ELSE "undo_user",
                                          !.message = "too_frequent"]
                           ELSE [c EXCEPT !.pc = "running"]]
        /\ UNCHANGED <<nonLlmVars, GLOBAL_INFLIGHT, USER_INFLIGHT, GROUP_INFLIGHT,
                       llm_now>>

\* The releases on the way to Err(LlmAbuseBlock), in the order of the code.
LlmUndoGroup(t) ==
    /\ llm_task[t].pc = "undo_group"
    /\ GROUP_INFLIGHT' = dec_inflight(GROUP_INFLIGHT, llm_task[t].group_id)
    /\ llm_task' = [llm_task EXCEPT ![t].pc = "undo_user"]
    /\ UNCHANGED <<nonLlmVars, GLOBAL_INFLIGHT, USER_INFLIGHT, USER_LAST_START,
                   llm_now>>

LlmUndoUser(t) ==
    /\ llm_task[t].pc = "undo_user"
    /\ USER_INFLIGHT' = dec_inflight(USER_INFLIGHT, llm_task[t].user_id)
    /\ llm_task' = [llm_task EXCEPT ![t].pc = "undo_global"]
    /\ UNCHANGED <<nonLlmVars, GLOBAL_INFLIGHT, GROUP_INFLIGHT, USER_LAST_START,
                   llm_now>>

LlmUndoGlobal(t) ==
    /\ llm_task[t].pc = "undo_global"
    /\ GLOBAL_INFLIGHT' = fetch_sub(GLOBAL_INFLIGHT)
    /\ llm_task' = [llm_task EXCEPT ![t] = rejected(@)]
    /\ UNCHANGED <<nonLlmVars, USER_INFLIGHT, GROUP_INFLIGHT, USER_LAST_START,
                   llm_now>>

\* Drop of an active LlmTaskGuard: global, then user, then group.
LlmDrop(t) ==
    /\ llm_task[t].pc = "running"
    /\ GLOBAL_INFLIGHT' = fetch_sub(GLOBAL_INFLIGHT)
    /\ llm_task' = [llm_task EXCEPT ![t].pc = "drop_user"]
    /\ UNCHANGED <<nonLlmVars, USER_INFLIGHT, GROUP_INFLIGHT, USER_LAST_START,
                   llm_now>>

LlmDropUser(t) ==
    /\ llm_task[t].pc = "drop_user"
    /\ USER_INFLIGHT' = dec_inflight(USER_INFLIGHT, llm_task[t].user_id)
    /\ llm_task' = [llm_task EXCEPT ![t] =
                       IF @.group_id # 0 THEN [@ EXCEPT !.pc = "drop_group"] ELSE finished(@)]
    /\ UNCHANGED <<nonLlmVars, GLOBAL_INFLIGHT, GROUP_INFLIGHT, USER_LAST_START,
                   llm_now>>

LlmDropGroup(t) ==
    /\ llm_task[t].pc = "drop_group"
    /\ GROUP_INFLIGHT' = dec_inflight(GROUP_INFLIGHT, llm_task[t].group_id)
    /\ llm_task' = [llm_task EXCEPT ![t] = finished(@)]
    /\ UNCHANGED <<nonLlmVars, GLOBAL_INFLIGHT, USER_INFLIGHT, USER_LAST_START,
                   llm_now>>

InitLlmVars ==
    /\ GLOBAL_INFLIGHT = 0
    /\ USER_INFLIGHT = [u \in Users |-> 0]
    /\ GROUP_INFLIGHT = [g \in Groups |-> 0]
    /\ USER_LAST_START = [u \in Users |-> <<>>]
    /\ llm_now = 0
    /\ llm_task = [t \in Subs |-> NoTask]

(* get_group_send_status for one OneBot bot and one group (group_id # 0),   *)
(* one call after the other.  A call keeps the instant it was made at and  *)
(* the number of requests it has sent to the OneBot implementation; the log *)
(* keeps, for each call that returned, those two, the instant of the       *)
(* return and the status returned.                                         *)
NoStatusCall == [pc |-> "idle", at |-> 0, upstream |-> 0]
MemberReplies == {"none", "not_ok", "muted", "privileged", "member"}
GroupReplies == {"none", "not_ok", "all_shut", "open"}

\* entry.checked_at.elapsed() < GROUP_SEND_STATUS_TTL on the entry of the key.
cache_fresh ==
    /\ group_send_status_cache # <<>>
    /\ status_now - group_send_status_cache[1].checked_at < GROUP_SEND_STATUS_TTL_SECS

\* The call c returns status.
status_return(c, status) ==
    Append(status_log, [at |-> c.at, done |-> status_now, upstream |-> c.upstream,
                        status |-> status])

\* group_send_status_cache.insert(key, {checked_at: Instant::now(), status}).
cache_insert(status) ==
    <<[checked_at |-> status_now, status |-> status]>>

\* Entry: a fresh entry is returned, else get_self_id is awaited.
StatusCall ==
    /\ status_call.pc = "idle"
    /\ Len(status_log) < MaxStatusCalls
    /\ IF cache_fresh
       THEN /\ status_log' = status_return([NoStatusCall EXCEPT !.at = status_now],
                                           group_send_status_cache[1].status)
            /\ UNCHANGED status_call
       ELSE /\ status_call' = [NoStatusCall EXCEPT !.pc = "self_id", !.at = status_now]
            /\ UNCHANGED status_log
    /\ UNCHANGED <<nonStatusVars, self_id_cache, group_send_status_cache, status_now>>

\* get_self_id: from self_id_cache, else by get_login_info (resp = "none":
\* no usable answer, the call returns Unknown).
StatusSelfId(resp) ==
    /\ status_call.pc = "self_id"
    /\ self_id_cache => resp = "ok"
    /\ LET c == IF self_id_cache THEN status_call ELSE [status_call EXCEPT !.upstream = @ + 1]
       IN  IF resp = "ok"
           THEN /\ self_id_cache' = TRUE
                /\ status_call' = [c EXCEPT !.pc = "member"]
                /\ UNCHANGED status_log
           ELSE /\ status_log' = status_return(c, "Unknown")
                /\ status_call' = NoStatusCall
                /\ UNCHANGED self_id_cache
    /\ UNCHANGED <<nonStatusVars, group_send_status_cache, status_now>>

\* call_api get_group_member_info: no answer or status # ok returns Unknown;
\* a shut_up_timestamp gives Muted, role admin / owner gives Allowed, both
\* stored; an ordinary member goes on to get_group_info.
StatusMember(resp) ==
    LET c == [status_call EXCEPT !.upstream = @ + 1]
    IN  /\ status_call.pc = "member"
        /\ CASE resp \in {"none", "not_ok"} ->
                   /\ status_log' = status_return(c, "Unknown")
                   /\ status_call' = NoStatusCall
                   /\ UNCHANGED group_send_status_cache
             [] resp \in {"muted", "privileged"} ->
                   LET status == IF resp = "muted" THEN "Muted" ELSE "Allowed"
                   IN  /\ group_send_status_cache' = cache_insert(status)
                       /\ status_log' = status_return(c, status)
                       /\ status_call' = NoStatusCall
             [] OTHER ->
                   /\ status_call' = [c EXCEPT !.pc = "group"]
                   /\ UNCHANGED <<status_log, group_send_status_cache>>
        /\ UNCHANGED <<nonStatusVars, self_id_cache, status_now>>

\* call_api get_group_info: Muted when group_all_shut, else Allowed; stored.
StatusGroup(resp) ==
    LET c == [status_call EXCEPT !.upstream = @ + 1]
        status == IF resp = "all_shut" THEN "Muted" ELSE "Allowed"
    IN  /\ status_call.pc = "group"
        /\ group_send_status_cache' = cache_insert(status)
        /\ status_log' = status_return(c, status)
        /\ status_call' = NoStatusCall
        /\ UNCHANGED <<nonStatusVars, self_id_cache, status_now>>

\* A second passes.
StatusTick ==
    /\ status_now < MaxStatusSecs
    /\ status_now' = status_now + 1
    /\ UNCHANGED <<nonStatusVars, self_id_cache, group_send_status_cache, status_call,
                   status_log>>

\* Mutation: only the HTTP status is looked at.
is_discord_permission_error_by_status(status, code) ==
    status = 403

\* is_discord_permission_error on an answer with this HTTP status whose body
\* carries this error code: 403, or a body that names code 50013 (whose
\* message is "Missing Permissions").
is_discord_permission_error(status, code) ==
    status = 403 \/ code = 50013

\* get_group_send_status for a Discord bot whose connection is registered and
\* a channel (group_id # 0): the fresh entry of the key, else Allowed.
DiscordStatusCall ==
    /\ Len(status_log) <= MaxStatusCalls
    /\ status_log' = status_return([NoStatusCall EXCEPT !.at = status_now],
                                   IF cache_fresh THEN group_send_status_cache[1].status
                                   ELSE "Allowed")
    /\ UNCHANGED <<nonStatusVars, self_id_cache, group_send_status_cache, status_now,
                   status_call>>

\* discord_send_channel_message: one POST to the channel is answered with
\* this status and error code; a non-success answer that is a permission
\* error is written to the cache as Muted before Err is returned.
DiscordSend(status, code) ==
    /\ Len(status_log) <= MaxStatusCalls
    /\ status = 200 <=> code = 0
    /\ group_send_status_cache' =
           IF status # 200 /\ is_discord_permission_error(status, code)
           THEN cache_insert("Muted")
           ELSE group_send_status_cache
    /\ status_log' = Append(status_log, [at |-> status_now, done |-> status_now,
                                         upstream |-> 1, status |-> "POST",
                                         http |-> status, code |-> code])
    /\ UNCHANGED <<nonStatusVars, self_id_cache, status_now, status_call>>

InitStatusVars ==
    /\ self_id_cache = FALSE
    /\ group_send_status_cache = <<>>
    /\ status_now = 0
    /\ status_call = NoStatusCall
    /\ status_log = <<>>

InitPlugVars ==
    /\ loaded_plugins = {}
    /\ runtimes = {}
    /\ hook = NoHook

Init ==
    /\ InitConnVars
    /\ InitDedupVars
    /\ InitStoreVars
    /\ InitDiscVars
    /\ InitPlugVars
    /\ InitCfgVars
    /\ InitLlmVars
    /\ InitStatusVars
    /\ InitSupVars
    /\ InitBotVars
    /\ InitIdxVars
    /\ InitSendVars
    /\ InitPipeVars
    /\ InitImgVars
    /\ InitRedVars
    /\ InitFwdVars
    /\ InitSigVars
    /\ InitPersistVars
    /\ InitTaskVars

\* Supervision only: the login monitor, the supervisor and the workers.
NextSup ==
    \/ \E b \in OneBotIds : MonitorLogin(b)
    \/ \E b \in OneBotIds : MonitorLogout(b)
    \/ \E b \in OneBotIds, w \in Workers : SupervisorSpawn(b, w)
    \/ \E b \in OneBotIds : SupervisorCleanup(b)
    \/ \E w \in Workers : WorkerConnected(w)
    \/ \E w \in Workers : WorkerDialFailed(w)
    \/ \E w \in Workers : WorkerClose(w)
    \/ \E w \in Workers : WorkerUnregister(w)

SpecSup == Init /\ [][NextSup]_vars

\* Supervision of one bot together with the receive loop and the event tasks it spawns.
NextFrames ==
    \/ \E b \in RpcBots : MonitorLogin(b)
    \/ \E b \in RpcBots : MonitorLogout(b)
    \/ \E b \in RpcBots, w \in Workers : SupervisorSpawn(b, w)
    \/ \E b \in RpcBots : SupervisorCleanup(b)
    \/ \E w \in Workers : WorkerConnected(w)
    \/ \E w \in Workers : WorkerClose(w)
    \/ \E w \in Workers : WorkerUnregister(w)
    \/ \E w \in Workers : WorkerRead(w)
    \/ \E w \in Workers : WorkerDispatch(w)
    \/ \E w \in Workers : HandleEventDone(w)

SpecFrames == Init /\ [][NextFrames]_vars

\* One worker slot together with the RPC calls that go through it.
NextConn ==
    \/ \E b \in RpcBots : MonitorLogin(b)
    \/ \E b \in RpcBots : MonitorLogout(b)
    \/ \E b \in RpcBots, w \in RpcWorkers : SupervisorSpawn(b, w)
    \/ \E b \in RpcBots : SupervisorCleanup(b)
    \/ \E w \in RpcWorkers : WorkerConnected(w)
    \/ \E w \in RpcWorkers : WorkerDialFailed(w)
    \/ \E w \in RpcWorkers, e \in Echoes : WorkerRecvEcho(w, e)
    \/ \E w \in RpcWorkers : WorkerClose(w)
    \/ \E w \in RpcWorkers : WorkerUnregister(w)
    \/ \E c \in Calls, b \in RpcBots, a \in ApiActions, t \in {0} \cup RpcWorkers :
          CallStart(c, b, a, t)
    \/ \E c \in Calls, ok \in BOOLEAN : CallSend(c, ok)
    \/ \E c \in Calls : CallReturn(c)
    \/ \E c \in Calls : CallRecvErr(c)
    \/ \E c \in Calls : CallTimeout(c)
    \/ CallTick
    \/ AdvanceWall

SpecConn == Init /\ [][NextConn]_vars

\* The outbound layer over the registry of one bot.
NextDedup ==
    \/ \E b \in RpcBots : MonitorLogin(b)
    \/ \E b \in RpcBots, w \in RpcWorkers : SupervisorSpawn(b, w)
    \/ \E w \in RpcWorkers : WorkerConnected(w)
    \/ \E w \in RpcWorkers : WorkerClose(w)
    \/ \E w \in RpcWorkers : WorkerUnregister(w)
    \/ \E s \in Senders, b \in RpcBots, gid \in {0} \cup GroupIds, raw \in RawMessages,
          msg \in Messages, st \in {"Allowed", "Muted", "Unknown"} :
          SendReplyBegin(s, b, gid, raw, msg, st)
    \/ \E s \in Senders : SendReplyDedup(s)
    \/ \E s \in Senders, st \in {"Allowed", "Muted", "Unknown"} : SendApi(s, st)
    \/ ClockTick

SpecDedup == Init /\ [][NextDedup]_vars

\* The send_reply calls of one task, one after the other, with the history
\* of what reached the transport.
FirstSender == {1}
NextRetry ==
    \/ \E b \in RpcBots : MonitorLogin(b)
    \/ \E b \in RpcBots, w \in RpcWorkers : SupervisorSpawn(b, w)
    \/ \E w \in RpcWorkers : WorkerConnected(w)
    \/ \E w \in RpcWorkers : WorkerClose(w)
    \/ \E w \in RpcWorkers : WorkerUnregister(w)
    \/ \E s \in FirstSender, b \in RpcBots, gid \in {0} \cup GroupIds, raw \in RawMessages,
          msg \in Messages, st \in {"Allowed", "Muted", "Unknown"} :
          SendReplyBegin(s, b, gid, raw, msg, st)
    \/ \E s \in FirstSender : SendReplyDedup(s)
    \/ \E s \in FirstSender, st \in {"Allowed", "Muted", "Unknown"} : SendApiTraced(s, st)
    \/ ClockTick

SpecRetry == Init /\ [][NextRetry]_vars

\* The Discord supervisor, the update handler, one reconnect task and the
\* frames of the gateway.
NextDiscord ==
    \/ \E b \in DiscordIds, w \in FirstTask : DiscordStart(b, w)
    \/ \E b \in DiscordIds : DiscordStartFailed(b)
    \/ \E b \in DiscordIds : DiscordStop(b)
    \/ \E b \in DiscordIds, token \in BOOLEAN, running \in {None, "true", "false"} :
          UpdateDiscordBot(b, token, running)
    \/ \E b \in DiscordIds : UpdateDiscordRestart(b)
    \/ \E w \in FirstTask : DiscordDialed(w)
    \/ \E w \in FirstTask : DiscordConnectErr(w)
    \/ \E w \in FirstTask : DiscordHello(w)
    \/ \E w \in FirstTask, s \in Seqs, sid \in SessionIds : DiscordReady(w, s, sid)
    \/ \E w \in FirstTask, s \in Seqs : DiscordDispatch(w, s)
    \/ \E w \in FirstTask : DiscordReconnect(w)
    \/ \E w \in FirstTask, can_resume \in BOOLEAN : DiscordInvalidSession(w, can_resume)
    \/ \E w \in FirstTask : DiscordSessionErr(w)
    \/ \E w \in FirstTask : DiscordShutdown(w)
    \/ \E w \in FirstTask : DiscordMarkDisconnected(w)
    \/ \E w \in FirstTask : DiscordBackoffDone(w)
    \/ \E w \in FirstTask : DiscordCleanupUnregister(w)
    \/ \E w \in FirstTask : DiscordCleanupMark(w)

SpecDiscord == Init /\ [][NextDiscord]_vars

\* The same with the scheduling of the runtime: the handler goes on to
\* shutdown_discord_connection, the supervisor loop comes round, a
\* signalled select fires, a dial and a sleep end, and a task that can take
\* its next step in the loop takes it.
SpecDiscordStop ==
    /\ SpecDiscord
    /\ \A b \in DiscordIds : WF_vars(UpdateDiscordRestart(b)) /\ WF_vars(DiscordStop(b))
    /\ \A w \in FirstTask :
          /\ WF_vars(DiscordDialed(w) \/ DiscordConnectErr(w))
          /\ WF_vars(DiscordShutdown(w))
          /\ WF_vars(DiscordMarkDisconnected(w))
          /\ WF_vars(DiscordBackoffDone(w))
          /\ WF_vars(DiscordCleanupUnregister(w))
          /\ WF_vars(DiscordCleanupMark(w))

\* The Discord supervisor and one task with the messages the gateway delivers.
NextGateway ==
    \/ NextDiscord
    \/ \E w \in FirstTask, s \in Seqs, author_bot \in BOOLEAN :
          DiscordMessageCreate(w, s, author_bot)

SpecGateway == Init /\ [][NextGateway]_vars

\* The handlers that create bots, and the clock they read.
NextBots ==
    \/ \E c \in Creations, platform \in Platforms : create_bot_handler(c, platform)
    \/ \E c, src \in Creations : copy_bot_handler(c, src)
    \/ \E c \in Creations, ok \in BOOLEAN : BotProvisioned(c, ok)
    \/ UnixSecond

SpecBots == Init /\ [][NextBots]_vars

\* The gateway tasks that index the messages they receive.
NextIndex ==
    \/ \E t \in IndexTasks, key \in IndexKeys : IndexInsert(t, key)
    \/ \E t \in IndexTasks : IndexPush(t)
    \/ \E t \in IndexTasks : IndexPop(t)
    \/ \E t \in IndexTasks : IndexRemove(t)

SpecIndex == Init /\ [][NextIndex]_vars

\* Replies of 3500 characters (at scale) with three image segments.
NextSend ==
    \E text \in SendTexts, images \in [1..3 -> ImageIds] : DiscordSendReply(text, images)

SpecSend == Init /\ [][NextSend]_vars

\* One run of the MediaBundle pipeline; every LLM call is answered.
NextBundle ==
    \/ \E items \in BundleInputs, has_text \in BOOLEAN : BundleStart(items, has_text)
    \/ \E result \in LlmResults : BundleCall(result)

SpecBundle ==
    Init /\ [][NextBundle]_vars /\ WF_vars(\E result \in LlmResults : BundleCall(result))

\* One run of the video pipeline in frames mode; every LLM call is answered.
NextFramesJob ==
    \/ \E total \in 0..MaxVideoFrames : FramesStart(total)
    \/ \E result \in LlmResults : FramesCall(result)

SpecFramesJob ==
    Init /\ [][NextFramesJob]_vars /\ WF_vars(\E result \in LlmResults : FramesCall(result))

\* One run of the video pipeline in direct mode; every preparation and
\* every LLM call is answered.
NextDirectJob ==
    \/ \E max_raw_bytes \in (MIN_RAW_BYTES - 2)..MaxRawBytes : DirectStart(max_raw_bytes)
    \/ \E prepared \in BOOLEAN, result \in LlmResults : DirectCall(prepared, result)

SpecDirectJob ==
    Init /\ [][NextDirectJob]_vars
         /\ WF_vars(\E prepared \in BOOLEAN, result \in LlmResults : DirectCall(prepared, result))

\* One prepare_image_data_url call.
NextImage ==
    \/ \E width, height \in ImageSides, jpeg_quality \in JpegQualities, budget \in ImageBudgets :
          ImageStart(width, height, jpeg_quality, budget)
    \/ \E jpeg_len \in JpegLens : ImageEncode(jpeg_len)

SpecImage == Init /\ [][NextImage]_vars

\* The redaction of one outbound text.
NextRedact ==
    \/ \E text \in RedactTexts, model_output \in BOOLEAN, sensitive_ids \in SensitiveLists :
          RedactStart(text, model_output, sensitive_ids)
    \/ \E name \in Nicknames : RedactSensitiveId(name)
    \/ \E name \in Nicknames : RedactDigitToken(name)

SpecRedact == Init /\ [][NextRedact]_vars

\* One collect_forward_media call.
NextForward ==
    \E images \in 0..MaxImages, levels \in 1..MaxLevels, per_msg \in PerMessage, style \in MediaStyles :
        \E distinct \in {1, (images \div 2) + 1, images + 1} :
            collect_forward_media(images, distinct, levels, per_msg, style)

SpecForward == Init /\ [][NextForward]_vars

\* One signature and its verification.
NextVerify ==
    \/ \E private_key \in SigningKeys, plugin_id \in SignIds, version \in SignVersions, code \in SignCodes :
          SignPlugin(private_key, plugin_id, version, code)
    \/ \E plugin_id \in SignIds, version \in SignVersions, code \in SignCodes :
          VerifyPlugin(plugin_id, version, code)

SpecVerify == Init /\ [][NextVerify]_vars

\* The savers of the bot store.
NextPersist ==
    \/ \E t \in Savers, b \in BotIds, v \in BOOLEAN : SaverMutate(t, b, v)
    \/ \E t \in Savers : SaverCollect(t)
    \/ \E t \in Savers, ok \in BOOLEAN : SaverWrite(t, ok)

SpecPersist == Init /\ [][NextPersist]_vars

\* The bot creations with their background tasks.
NextTasks ==
    \/ \E c \in Creations, platform \in Platforms : CreateBotTask(c, platform)
    \/ \E c \in Creations : TaskCheckImage(c)
    \/ \E c \in Creations, ok \in BOOLEAN : TaskImageDone(c, ok)
    \/ \E c \in Creations, ok \in BOOLEAN : TaskProvisioned(c, ok)
    \/ \E c \in Creations : TaskInsertBot(c)
    \/ \E c \in Creations : TaskSucceed(c)
    \/ UnixSecond

SpecTasks == Init /\ [][NextTasks]_vars

\* The login monitor and supervisor of one OneBot bot next to the Discord
\* supervisor and one task, without the gateway frames other than READY.
NextFlag ==
    \/ \E b \in RpcBots : MonitorLogin(b)
    \/ \E b \in RpcBots : MonitorLogout(b)
    \/ \E b \in RpcBots, w \in RpcWorkers : SupervisorSpawn(b, w)
    \/ \E b \in RpcBots : SupervisorCleanup(b)
    \/ \E w \in RpcWorkers : WorkerConnected(w)
    \/ \E w \in RpcWorkers : WorkerDialFailed(w)
    \/ \E w \in RpcWorkers : WorkerClose(w)
    \/ \E w \in RpcWorkers : WorkerUnregister(w)
    \/ \E b \in DiscordIds, w \in FirstTask : DiscordStart(b, w)
    \/ \E b \in DiscordIds : DiscordStop(b)
    \/ \E b \in DiscordIds, token \in BOOLEAN, running \in {None, "true", "false"} :
          UpdateDiscordBot(b, token, running)
    \/ \E b \in DiscordIds : UpdateDiscordRestart(b)
    \/ \E w \in FirstTask : DiscordDialed(w)
    \/ \E w \in FirstTask : DiscordConnectErr(w)
    \/ \E w \in FirstTask : DiscordHello(w)
    \/ \E w \in FirstTask, s \in Seqs, sid \in SessionIds : DiscordReady(w, s, sid)
    \/ \E w \in FirstTask : DiscordSessionErr(w)
    \/ \E w \in FirstTask : DiscordShutdown(w)
    \/ \E w \in FirstTask : DiscordMarkDisconnected(w)
    \/ \E w \in FirstTask : DiscordBackoffDone(w)
    \/ \E w \in FirstTask : DiscordCleanupUnregister(w)
    \/ \E w \in FirstTask : DiscordCleanupMark(w)

SpecFlag == Init /\ [][NextFlag]_vars

\* A Discord bot that is restarted by token updates while its tasks run: the
\* task that was signalled can still be on its way out when the next one
\* has been started.
NextRestart ==
    \/ \E b \in DiscordIds, w \in DWorkers : DiscordStart(b, w)
    \/ \E b \in DiscordIds : UpdateDiscordBot(b, TRUE, "true")
    \/ \E b \in DiscordIds : UpdateDiscordRestart(b)
    \/ \E w \in DWorkers : DiscordDialed(w)
    \/ \E w \in DWorkers : DiscordConnectErr(w)
    \/ \E w \in DWorkers : DiscordHello(w)
    \/ \E w \in DWorkers, s \in Seqs, sid \in SessionIds : DiscordReady(w, s, sid)
    \/ \E w \in DWorkers, s \in Seqs : DiscordDispatch(w, s)
    \/ \E w \in DWorkers : DiscordReconnect(w)
    \/ \E w \in DWorkers, can_resume \in BOOLEAN : DiscordInvalidSession(w, can_resume)
    \/ \E w \in DWorkers : DiscordSessionErr(w)
    \/ \E w \in DWorkers : DiscordShutdown(w)
    \/ \E w \in DWorkers : DiscordMarkDisconnected(w)
    \/ \E w \in DWorkers : DiscordBackoffDone(w)
    \/ \E w \in DWorkers : DiscordCleanupUnregister(w)
    \/ \E w \in DWorkers : DiscordCleanupMark(w)

SpecRestart == Init /\ [][NextRestart]_vars

\* The plugin host: loading and unloading next to one broadcast hook call.
NextPlugin ==
    \/ \E p \in PluginIds, ok \in BOOLEAN : PluginLoad(p, ok)
    \/ \E p \in PluginIds : PluginUnload(p)
    \/ \E kind \in BroadcastHooks, keys \in IterOrders(loaded_plugins) : HookBegin(kind, keys)
    \/ \E answer \in Replies, allow \in BOOLEAN, outs \in PluginOutputs :
          HookInvoke(answer, allow, outs)
    \/ HookReturn
    \/ HookConsume

SpecPlugin == Init /\ [][NextPlugin]_vars

\* Config updates of one plugin next to its loading and unloading.
NextConfig ==
    \/ \E p \in Targets, ok \in BOOLEAN : PluginLoad(p, ok)
    \/ \E p \in Targets : PluginUnload(p)
    \/ \E h \in Handlers, p \in Targets, config \in Configs : UpdateBegin(h, p, config)
    \/ \E h \in Handlers, ok \in BOOLEAN : UpdateRuntime(h, ok)
    \/ \E h \in Handlers, ok \in BOOLEAN : UpdatePersist(h, ok)
    \/ \E h \in Handlers, ok \in BOOLEAN : UpdateRollback(h, ok)

SpecConfig == Init /\ [][NextConfig]_vars

\* LLM submissions and completions under the abuse limits.
NextLlm ==
    \/ \E t \in Subs, u \in Users, g \in Groups : LlmSubmit(t, u, g)
    \/ \E t \in Subs : LlmUser(t)
    \/ \E t \in Subs : LlmGroup(t)
    \/ \E t \in Subs, dt \in LlmTimes : LlmNow(t, dt)
    \/ \E t \in Subs : LlmEntry(t)
    \/ \E t \in Subs : LlmUndoGroup(t)
    \/ \E t \in Subs : LlmUndoUser(t)
    \/ \E t \in Subs : LlmUndoGlobal(t)
    \/ \E t \in Subs : LlmDrop(t)
    \/ \E t \in Subs : LlmDropUser(t)
    \/ \E t \in Subs : LlmDropGroup(t)

SpecLlm == Init /\ [][NextLlm]_vars

\* Successive send-status lookups of one group.
NextStatus ==
    \/ StatusCall
    \/ \E resp \in {"ok", "none"} : StatusSelfId(resp)
    \/ \E resp \in MemberReplies : StatusMember(resp)
    \/ \E resp \in GroupReplies : StatusGroup(resp)
    \/ StatusTick

SpecStatus == Init /\ [][NextStatus]_vars

\* Sends to one Discord channel and send-status lookups of it.
NextDiscordStatus ==
    \/ DiscordStatusCall
    \/ \E status \in {200, 400, 403}, code \in {0, 10003, 50013} : DiscordSend(status, code)
    \/ StatusTick

SpecDiscordStatus == Init /\ [][NextDiscordStatus]_vars

(***************************************************************************)
(* Claims about the OneBot connection registry and the RPC correlation.    *)
(***************************************************************************)

\* C1: for every bot there is at most one live worker/socket at any time, and
\* the worker that serves the bot is the one the registry entry names: a new
\* connection is only established once the previous one is gone.
C1_OneConnectionPerBot ==
    \A b \in OneBotIds :
        /\ Cardinality(LiveWorkers(b)) <= 1
        /\ connections[b].kind = "OneBot" =>
              \A w \in LiveWorkers(b) : connections[b].sender = w

\* C2: after a quiescent period (no call_api is outstanding) the pending map
\* is empty: every inserted entry was removed by its response or its timeout.
C2_PendingEmptyWhenQuiescent ==
    (\A c \in Calls : ~Outstanding(c)) =>
        \A e \in Echoes : pending_requests[e] = 0

\* C3: every call_api that inserted a pending entry ends within 16 s in one of
\* three ways (response delivered, timeout, connection unregistered or closed),
\* and in each of them its pending entry is gone.
C3_CallEndsInOneOfThreeWays ==
    \A c \in Calls :
        /\ call[c].pc = "waiting" => call[c].elapsed < 16
        /\ call[c].pc = "ended" =>
              /\ call[c].outcome \in {"response", "timeout", "unregistered", "sendfail"}
              /\ \A e \in Echoes : pending_requests[e] # c

\* C4: no two outstanding calls use the same echo.
C4_EchoUnique ==
    \A c1, c2 \in Calls :
        (c1 # c2 /\ Outstanding(c1) /\ Outstanding(c2)) => call[c1].echo # call[c2].echo

(***************************************************************************)
(* Claims about the outbound deduplication.                                *)
(***************************************************************************)

C7_ConnectedImpliesLiveTransport ==
    /\ \A b \in OneBotIds : is_connected[b] => LiveWorkers(b) # {}
    /\ \A b \in DiscordIds :
          is_connected[b] => \E w \in DiscordSessions(b) : dworker[w].ready

\* C7, amended: is_connected is the observed login / ready state and not the
\* transport.  A OneBot worker starts to dial only for a bot whose flag is
\* true (the flag comes first, the socket after it), and the flag of a
\* Discord bot becomes true only in the step in which an open gateway
\* session of that bot receives READY.
C7_ConnectedIsLoginOrReady ==
    [][/\ \A w \in Workers :
             (worker[w].pc = "idle" /\ worker'[w].pc = "dialing") =>
                 is_connected[worker'[w].bot]
       /\ \A b \in DiscordIds :
             (~is_connected[b] /\ is_connected'[b]) =>
                 \E w \in DiscordSessions(b) :
                     /\ ~dworker[w].ready
                     /\ dworker'[w].pc = "session" /\ dworker'[w].ready]_vars

\* A logged-in OneBot bot whose socket is still being dialled, next to a
\* Discord bot that is connected through a session that received READY.
C7_Witness ==
    /\ \E w \in Workers : worker[w].pc = "dialing" /\ is_connected[worker[w].bot]
    /\ \E b \in DiscordIds :
          is_connected[b] /\ \E w \in DiscordSessions(b) : dworker[w].ready

\* C8: after an established session was lost, the task makes its next
\* connection attempt within 5 s: it is not held up on the way to the
\* backoff sleep, and the sleep it then takes is at most 5 s long.
C8_RedialWithinFiveSeconds ==
    \A w \in DWorkers :
        dworker[w].dropped =>
            /\ dworker[w].pc # "save_bots"
            /\ dworker[w].pc = "sleep" => dworker[w].backoff <= 5

\* C9: each time a session that had reached READY ends without shutdown,
\* the loop clears is_connected, persists the bot store and goes on to the
\* backoff sleep; it never stays in that step waiting for the store.
C9_ReconnectLoopNeverBlocks ==
    \A w \in DWorkers :
        /\ ~(dworker[w].pc = "save_bots" /\ bots_guard = w)
        /\ (dworker[w].dropped /\ dworker[w].pc = "sleep") =>
              ~bots_file.is_connected[dworker[w].bot]

\* C10: after op 9 with can_resume = true, on its next connection the task
\* sends RESUME (op 6) with the stored session id and the last sequence
\* number it received, not IDENTIFY.
C10_ResumeAfterInvalidSession ==
    \A w \in DWorkers :
        (dworker[w].invalidated # NoResume /\ dworker[w].pc = "session") =>
            dworker[w].sent = Resume(dworker[w].invalidated.session_id,
                                     dworker[w].invalidated.seq)

\* C11: once the shutdown watch of a task is signalled, the task performs no
\* further dial and no further gateway send: it neither begins a dial, nor
\* completes the one it is suspended on, nor answers HELLO with IDENTIFY or
\* RESUME.
C11_ShutdownHonouredAtEveryAwait ==
    [][\A w \in DWorkers :
          (shutdown[w] /\ dworker[w].pc # "idle" /\ dworker'[w].pc # dworker[w].pc) =>
              dworker'[w].pc \notin {"dial", "hello", "session"}]_vars

(***************************************************************************)
(* Claims about the broadcast hooks of the plugin manager                  *)
(***************************************************************************)

\* C12: in a broadcast hook, once a plugin has returned allow = false no
\* later plugin is invoked, and the HookResult carries allow = false with
\* all outputs accumulated so far, those of that plugin included.
C12_AllowFalseHaltsAndKeepsOutputs ==
    \A i \in 1..Len(hook.trace) :
        (hook.trace[i].reply = "ok" /\ ~hook.trace[i].allow) =>
            LET gave == SelectSeq(hook.trace,
                                  LAMBDA e : e.reply = "ok" /\ e.outs # <<>>)
            IN  /\ i = Len(hook.trace)
                /\ hook.pc = "done"
                /\ ~hook.allow
                /\ hook.all_outputs =
                       [k \in 1..Len(gave) |-> <<gave[k].id, gave[k].outs[1]>>]

C12_Witness ==
    /\ hook.pc = "done"
    /\ ~hook.allow
    /\ hook.plugin_ids # <<>>
    /\ Len(hook.trace) = 2
    /\ hook.trace[1].reply = "ok" /\ hook.trace[1].outs # <<>>
    /\ hook.trace[2].reply = "ok" /\ ~hook.trace[2].allow /\ hook.trace[2].outs # <<>>
    /\ Len(hook.all_outputs) = 2

\* C13: every broadcast hook asks the loaded plugins in one order: the
\* whitelist plugin (priority -100) first, the others by lexicographic plugin
\* id, whatever the order in which the loaded set yields them.
C13_DeterministicHookOrder ==
    hook.pc # "idle" =>
        LET order == [i \in 1..Len(hook.trace) |-> hook.trace[i].id] \o hook.plugin_ids
        IN  /\ Len(order) = Cardinality(hook.snapshot)
            /\ {order[i] : i \in 1..Len(order)} = hook.snapshot
            /\ \A i, j \in 1..Len(order) :
                   i < j => /\ order[j] # Whitelist
                            /\ order[i] = Whitelist \/ str_less(order[i], order[j])

C13_Witness ==
    /\ hook.pc = "running"
    /\ Cardinality(hook.snapshot) = 3
    /\ Len(hook.trace) = 2
    /\ hook.trace[1].id = Whitelist
    /\ str_less(hook.trace[2].id, Whitelist)

\* C14 as stated: when the call of preMessage, preCommand, onNotice or
\* onMetaEvent raises in a plugin, the plugin counts as allow = false (the
\* iteration ends there with allow = false) and none of its outputs is applied.
C14_RaiseIsAllowFalse ==
    \A i \in 1..Len(hook.trace) :
        hook.trace[i].reply = "raise" =>
            /\ i = Len(hook.trace)
            /\ hook.pc = "done"
            /\ ~hook.allow
            /\ \A k \in 1..Len(hook.all_outputs) : hook.all_outputs[k][1] # hook.trace[i].id

\* C14, amended: a raise in preMessage or preCommand counts as allow = false;
\* a raise in onNotice or onMetaEvent counts as allow = true and the
\* iteration goes on; in all four none of the plugin's outputs is applied.
C14_RaiseGatesMessagesAndCommands ==
    \A i \in 1..Len(hook.trace) :
        hook.trace[i].reply = "raise" =>
            /\ hook.kind \in {"preMessage", "preCommand"} =>
                   (i = Len(hook.trace) /\ hook.pc = "done" /\ ~hook.allow)
            /\ hook.kind \in {"onNotice", "onMetaEvent"} =>
                   (i = Len(hook.trace) => (hook.pc = "running" \/ hook.allow))
            /\ \A k \in 1..Len(hook.all_outputs) : hook.all_outputs[k][1] # hook.trace[i].id

C14_Witness ==
    /\ hook.kind = "onNotice"
    /\ hook.pc = "done"
    /\ hook.allow
    /\ Len(hook.trace) = 2
    /\ hook.trace[1].reply = "raise" /\ hook.trace[1].outs # <<>>
    /\ hook.trace[2].reply = "ok"
    /\ Len(hook.all_outputs) = 1

\* C15: whenever a config update of a plugin has returned and none is under
\* way, the config held by the loaded plugin's runtime is the persisted one.
C15_RuntimeConfigEqualsPersisted ==
    \A p \in PluginIds :
        (/\ \A h \in Handlers : upd[h].pc = "idle"
         /\ \E h \in Handlers : upd[h].plugin = p /\ upd[h].result # None
         /\ p \in runtimes)
            => runtime_config[p] = persisted_config[p]

(***************************************************************************)
(* Claims about the LLM abuse limits                                       *)
(***************************************************************************)

\* C16: when two submissions of one user with max_concurrent_per_user = 1
\* are the only ones made and both have returned while no guard has been
\* dropped, exactly one was accepted and the other was rejected with the
\* message that a task of the user is already in progress.
C16_OneAcceptedOneInProgress ==
    \A t1, t2 \in Subs :
        (/\ t1 # t2
         /\ llm_task[t1].user_id = llm_task[t2].user_id
         /\ UserLimit(llm_task[t1].user_id) = 1
         /\ llm_task[t1].pc \in {"running", "rejected"}
         /\ llm_task[t2].pc \in {"running", "rejected"}
         /\ \A t \in Subs \ {t1, t2} : llm_task[t].pc = "idle")
            => \/ /\ llm_task[t1].pc = "running"
                  /\ llm_task[t2].pc = "rejected" /\ llm_task[t2].message = "in_progress"
               \/ /\ llm_task[t2].pc = "running"
                  /\ llm_task[t1].pc = "rejected" /\ llm_task[t1].message = "in_progress"

C16_Witness ==
    /\ llm_task[1].user_id = 1 /\ llm_task[2].user_id = 1
    /\ llm_task[1].pc = "rejected" /\ llm_task[1].message = "in_progress"
    /\ llm_task[2].pc = "running"
    /\ \A t \in Subs \ {1, 2} : llm_task[t].pc = "idle"

\* C17: the accepted calls whose guard is not dropped are at most
\* max_concurrent_global in all, at most max_concurrent_per_user for each
\* user and at most max_concurrent_per_group for each group.
C17_InflightWithinCaps ==
    LET accepted == {t \in Subs : llm_task[t].pc = "running"}
    IN  /\ Cardinality(accepted) <= MAX_CONCURRENT_GLOBAL
        /\ \A u \in Users :
               Cardinality({t \in accepted : llm_task[t].user_id = u}) <= UserLimit(u)
        /\ \A g \in Groups \ {0} :
               Cardinality({t \in accepted : llm_task[t].group_id = g})
                   <= MAX_CONCURRENT_PER_GROUP

C17_Witness ==
    /\ Cardinality({t \in Subs : llm_task[t].pc = "running"}) = MAX_CONCURRENT_GLOBAL
    /\ \E t \in Subs : llm_task[t].pc = "rejected" /\ llm_task[t].message = "too_many"

C19_MinIntervalBetweenAccepted ==
    \A t1, t2 \in Subs :
        (/\ t1 # t2
         /\ llm_task[t1].user_id = llm_task[t2].user_id
         /\ llm_task[t1].pc \in {"running", "drop_user", "drop_group", "finished"}
         /\ llm_task[t2].pc \in {"running", "drop_user", "drop_group", "finished"}
         /\ llm_task[t1].now <= llm_task[t2].now)
            => llm_task[t2].now - llm_task[t1].now >= MIN_INTERVAL_SECS

C19_Witness ==
    \E t1, t2 \in Subs :
        /\ llm_task[t1].user_id = llm_task[t2].user_id
        /\ llm_task[t1].pc = "running"
        /\ llm_task[t2].pc = "rejected" /\ llm_task[t2].message = "too_frequent"
        /\ \E t3 \in Subs : /\ llm_task[t3].user_id = llm_task[t1].user_id
                            /\ llm_task[t3].pc = "finished"
                            /\ llm_task[t1].now - llm_task[t3].now >= MIN_INTERVAL_SECS

(***************************************************************************)
(* Claims about the send-status cache                                      *)
(***************************************************************************)

\* C20: of two successive get_group_send_status calls for one (bot, group)
\* that lie within 3 s, at most one request goes upstream in all and both
\* return the same value.
C20_CachedWithinThreeSeconds ==
    \A i \in 1..(Len(status_log) - 1) :
        status_log[i + 1].done - status_log[i].at < GROUP_SEND_STATUS_TTL_SECS =>
            /\ status_log[i].upstream + status_log[i + 1].upstream <= 1
            /\ status_log[i].status = status_log[i + 1].status

C22_ExitedBotIsRespawned ==
    \A b \in OneBotIds :
        exited[b] /\ is_connected[b] => ~has_connection(b)


\* C23 as stated: the processing of a frame of a OneBot connection never
\* overlaps with the processing of another frame of the same connection.
C23_FramesNeverOverlap ==
    \A w \in Workers : frames[w].recv + frames[w].handlers <= 1

\* C23: the receive loop of a OneBot connection takes the inbound frames one
\* at a time and never holds more than one frame; the handle_event tasks it
\* spawns for event frames may overlap.
C23_ReceiveLoopOneFrameAtATime ==
    \A w \in Workers : frames[w].recv <= 1

C23_Witness ==
    \E w \in Workers :
        /\ worker[w].pc = "serving"
        /\ frames[w].recv = 1
        /\ frames[w].handlers = 2


\* C24: a MESSAGE_CREATE dispatch that arrives on a gateway connection
\* before READY was received on that connection is neither indexed nor
\* emitted as an inbound event.
C24_MessageBeforeReadyDropped ==
    \A m \in discord_inbound : ~m.ready => ~m.indexed /\ ~m.emitted


\* C25: every bot created by create_bot_handler or copy_bot_handler gets an
\* id different from the id of every other creation, finished or in
\* progress, so that every finished creation's bot is still in the store.
C25_BotIdsUnique ==
    /\ \A c, k \in Creations :
          c # k /\ creating[c].pc # "idle" /\ creating[k].pc # "idle"
             => creating[c].id # creating[k].id
    /\ \A c \in Creations :
          creating[c].pc = "done"
             => creating[c].id \in DOMAIN bots /\ bots[creating[c].id] = c


\* C26: the Discord message index never holds more than
\* DISCORD_MSG_INDEX_MAX entries, and what it evicts are the keys that
\* were indexed first: a key that a finished call indexed is still there
\* as long as it is among the last DISCORD_MSG_INDEX_MAX keys indexed.
C26_IndexBoundedFifo ==
    /\ Cardinality(discord_msg_index) <= DISCORD_MSG_INDEX_MAX
    /\ (\A t \in IndexTasks : index_call[t].pc = "idle")
          => \A i \in 1..Len(discord_msg_fifo) :
                discord_msg_fifo[i] \in discord_msg_index


C28_BundleDropsLastAndEnds ==
    /\ [][bundle.pc = "calling" /\ bundle' # bundle
            /\ retryable(bundle'.last) /\ bundle.media_meta # <<>>
          => /\ bundle'.pc = "calling"
             /\ bundle'.media_meta = SubSeq(bundle.media_meta, 1, Len(bundle.media_meta) - 1)
             /\ bundle'.dropped = Append(bundle.dropped, bundle.media_meta[Len(bundle.media_meta)])
             /\ Tail(bundle'.content) =
                  Tail(content_parts(bundle'.media_meta, bundle.file_meta,
                                     bundle.failures, bundle.has_text))
             /\ bundle'.content[1] =
                  build_ctx_pretty(bundle'.media_meta, bundle.file_meta,
                                   bundle.failures, bundle'.dropped)]_vars
    /\ [](bundle.calls <= bundle.prepared + 1)
    /\ [](bundle.pc = "calling" => <>(bundle.pc \in {"replied", "error"}))

C28_Witness ==
    /\ bundle.pc = "error"
    /\ bundle.prepared = 2
    /\ bundle.calls = 3
    /\ bundle.dropped = <<3, 1>>
    /\ bundle.file_meta = <<2>>

\* C29 as stated: in frames mode every RequestTooLarge/413 before the
\* fourth attempt halves the number of selected frames and calls again;
\* there are at most 4 attempts and the loop ends with a reply or an error.
C29_FramesHalvedOnEverySizeError ==
    /\ [][frames_job.pc = "calling" /\ frames_job' # frames_job
            /\ retryable(frames_job'.last) /\ frames_job'.calls < FRAMES_ATTEMPTS
          => /\ frames_job'.pc = "calling"
             /\ frames_job'.selected = (frames_job.selected + 1) \div 2]_vars
    /\ [](frames_job.calls <= FRAMES_ATTEMPTS)
    /\ [](frames_job.pc = "calling" => <>(frames_job.pc \in {"replied", "error"}))

\* C29: in frames mode every RequestTooLarge/413 before the fourth attempt
\* that finds more than one frame selected halves the number of selected
\* frames (rounding up) and calls again; there are at most 4 attempts and
\* the loop ends with a reply or an error.
C29_FramesHalvedWhileSeveral ==
    /\ [][frames_job.pc = "calling" /\ frames_job' # frames_job
            /\ retryable(frames_job'.last) /\ frames_job'.calls < FRAMES_ATTEMPTS
            /\ frames_job.selected > 1
          => /\ frames_job'.pc = "calling"
             /\ frames_job'.selected = (frames_job.selected + 1) \div 2]_vars
    /\ [](frames_job.calls <= FRAMES_ATTEMPTS)
    /\ [](frames_job.pc = "calling" => <>(frames_job.pc \in {"replied", "error"}))

C29_Witness ==
    /\ frames_job.pc = "error"
    /\ frames_job.total = 24
    /\ frames_job.selected = 3
    /\ frames_job.calls = 4
    /\ retryable(frames_job.last)

\* C30 as stated: in direct mode every RequestTooLarge/413 shrinks the
\* budget by 30 % and calls again as long as fewer than 3 retries were
\* made; there are at most 3 retries and the loop ends with a reply or an
\* error.
C30_DirectRetriedThreeTimes ==
    /\ [][direct_job.pc = "calling" /\ direct_job'.calls = direct_job.calls + 1
            /\ retryable(direct_job'.last) /\ direct_job.calls < 3
          => /\ direct_job'.pc = "calling"
             /\ direct_job'.max_raw_bytes = (direct_job.max_raw_bytes * 7) \div 10]_vars
    /\ [](direct_job.calls <= 1 + 3)
    /\ [](direct_job.pc = "calling" => <>(direct_job.pc \in {"replied", "error"}))

\* C30: in direct mode every RequestTooLarge/413 shrinks the budget by 30 %
\* and calls again as long as fewer than 3 attempts were made; there are
\* at most 3 attempts and the loop ends with a reply or an error.
C30_DirectThreeAttempts ==
    /\ [][direct_job.pc = "calling" /\ direct_job'.calls = direct_job.calls + 1
            /\ retryable(direct_job'.last) /\ direct_job'.calls < 3
          => /\ direct_job'.pc = "calling"
             /\ direct_job'.max_raw_bytes = (direct_job.max_raw_bytes * 7) \div 10]_vars
    /\ [](direct_job.calls <= 3)
    /\ [](direct_job.pc = "calling" => <>(direct_job.pc \in {"replied", "error"}))

C30_Witness ==
    /\ direct_job.pc = "error"
    /\ direct_job.calls = 3
    /\ retryable(direct_job.last)
    /\ direct_job.max_raw_bytes = 34


\* C31: prepare_image_data_url with max_output_bytes = N either returns a
\* data URL of at most N bytes or fails with "Image too large", after at
\* most 10 adjustments.
C31_DataUrlWithinBudget ==
    /\ image_job.pc = "ok" => image_job.url_len <= image_job.budget
    /\ image_job.encodes <= IMAGE_ATTEMPTS


\* C32: for the input "踢出 123456789，@987654 查看 qq=55667788" (KickText)
\* the output of the privacy redaction, pattern redaction included, contains
\* none of the digit strings 123456789, 987654 and 55667788.
C32_KickTextHasNoIds ==
    (redact_job.pc = "done" /\ redact_job.model_output /\ redact_job.input = KickText)
        => /\ ~contains(redact_job.out, Id123456789)
           /\ ~contains(redact_job.out, Id987654)
           /\ ~contains(redact_job.out, Id55667788)


C34_SignatureBoundToTriple ==
    (verify_job.pc = "verified" /\ verify_job.key = "official")
        => (verify_job.result <=> verify_job.checked = verify_job.signed)


\* C35: unloading a plugin while a preMessage or preCommand broadcast is in
\* progress never blocks the event: when every plugin that was asked either
\* allowed the event or had been unloaded by then, which is what the
\* broadcast comes to with the unloaded plugins loaded or absent throughout,
\* the broadcast allows the event.
C35_UnloadNeverBlocksEvent ==
    (/\ hook.pc = "done"
     /\ hook.kind \in {"preCommand", "preMessage"}
     /\ \A i \in 1..Len(hook.trace) :
           hook.trace[i].reply \in {"ok", "absent"} /\ hook.trace[i].allow)
        => hook.allow


\* The drop of the guard of call t decrements the global counter, then the
\* counter of its user, then, when it has a group, the counter of its group,
\* each by one and nothing else, and a dropped guard takes no further step.
C36_DropStep ==
    \A t \in Subs :
        LET c == llm_task[t]
            one(b) == IF b THEN 1 ELSE 0
        IN  /\ (c.pc \in {"running", "drop_user", "drop_group"} /\ llm_task'[t].pc # c.pc)
                  => /\ GLOBAL_INFLIGHT' = GLOBAL_INFLIGHT - one(c.pc = "running")
                     /\ USER_INFLIGHT' = [USER_INFLIGHT EXCEPT
                            ![c.user_id] = @ - one(c.pc = "drop_user")]
                     /\ GROUP_INFLIGHT' = [GROUP_INFLIGHT EXCEPT
                            ![c.group_id] = @ - one(c.pc = "drop_group")]
                     /\ llm_task'[t].pc = "finished"
                            <=> (c.pc = "drop_group" \/ (c.pc = "drop_user" /\ c.group_id = 0))
            /\ c.pc = "finished" => llm_task'[t].pc = "finished"

C36_NeverBelowZero ==
    /\ GLOBAL_INFLIGHT >= 0
    /\ \A u \in Users : USER_INFLIGHT[u] >= 0
    /\ \A g \in Groups : GROUP_INFLIGHT[g] >= 0

C36_AllZero ==
    /\ GLOBAL_INFLIGHT = 0
    /\ \A u \in Users : USER_INFLIGHT[u] = 0
    /\ \A g \in Groups : GROUP_INFLIGHT[g] = 0

\* C36 as stated: the drop of the guard of an accepted task decrements
\* exactly the counters the task incremented, exactly once; no counter goes
\* below zero; all inflight counters are zero when no accepted task is in
\* flight.
C36_CountersZeroWithoutAccepted ==
    /\ [][C36_DropStep]_vars
    /\ []C36_NeverBelowZero
    /\ []((\A t \in Subs : llm_task[t].pc \notin {"running", "drop_user", "drop_group"})
             => C36_AllZero)

\* C36, amended: as above, with all inflight counters zero when no accepted
\* task is in flight and no submission is being decided.
C36_CountersZeroWhenQuiet ==
    /\ [][C36_DropStep]_vars
    /\ []C36_NeverBelowZero
    /\ []((\A t \in Subs : llm_task[t].pc \in {"idle", "rejected", "finished"})
             => C36_AllZero)

C36_Witness ==
    \E t1, t2 \in Subs :
        /\ llm_task[t1].pc = "finished"
        /\ llm_task[t2].pc = "rejected"
        /\ \A t \in Subs \ {t1, t2} : llm_task[t].pc = "finished" /\ llm_task[t].now > 0
        /\ C36_AllZero


\* C37: a send_reply is suppressed as a duplicate only if an identical
\* message reached the transport less than the TTL before the check.
C37_DuplicateOnlyAfterTransport ==
    [][\A s \in Senders :
          (reply[s].pc = "dedup" /\ reply'[s].pc = "idle" /\ last_check'.dup)
              => /\ transport_age[reply[s].hash] # -1
                 /\ AsSecs(transport_age[reply[s].hash]) < DEDUP_TTL_SECS]_vars


\* C38: after is_running of a Discord bot is set to false, its registry
\* entry is removed and its task is signalled and ends, unless the bot is
\* started again; and while the bot is stopped and has no task, is_connected
\* is false and the bot has no registry entry.
C38_StoppedBotIsTornDown ==
    \A b \in DiscordIds :
        /\ [](~is_running[b] =>
                <>(\/ is_running[b]
                   \/ /\ connections[b].kind # "Discord"
                      /\ \A w \in DWorkers : dworker[w].bot # b
                      /\ ~is_connected[b]))
        /\ []((~is_running[b] /\ \A w \in DWorkers : dworker[w].bot # b)
                 => (~is_connected[b] /\ connections[b].kind # "Discord"))


\* C39: once every change of the bot store and its save_bots call have
\* completed, with every write to the file successful, bots.json holds the
\* bot store as it is in memory, whatever the interleaving of the savers.
C39_FileEqualsStoreWhenQuiet ==
    (/\ \A t \in Savers : saver[t].pc \in {"idle", "done"}
     /\ \A t \in Savers : saver[t].pc = "done" => saver[t].written)
        => bots_json = bot_flags


\* C40: a bot-creation task starts in Running and changes state at most
\* once, to Success or to Error: a task that is inserted is Running, a task
\* that is Success or Error keeps its state in every later step, and a task
\* is Success only if the bot of its id is in the bot store.
C40_TaskStep ==
    /\ \A id \in DOMAIN tasks' \ DOMAIN tasks : tasks'[id].state = "Running"
    /\ \A id \in DOMAIN tasks :
          /\ id \in DOMAIN tasks'
          /\ tasks'[id].state # tasks[id].state
                => tasks[id].state = "Running" /\ tasks'[id].state \in {"Success", "Error"}

C40_TaskStateChangesOnce ==
    /\ [][C40_TaskStep]_vars
    /\ [](\A id \in DOMAIN tasks : tasks[id].state = "Success" => id[1] \in DOMAIN bots)

====
